---- MODULE Spec2Model ----
(***************************************************************************)
(* Avature ATS scraper: the URL discovery engine (job_url_extractor.py),   *)
(* the failure classifier and the detail fetcher's retry loop              *)
(* (job_details_extractor.py).                                             *)
(*                                                                         *)
(* Strings are sequences of tokens.  A token is a piece of text that holds *)
(* none of the separators the code splits on; the separators "/", "?" and  *)
(* "." are tokens of their own, so that split, rstrip, endswith and `in`   *)
(* are computed on the model's strings as Python computes them.            *)
(***************************************************************************)
EXTENDS Integers, Sequences, FiniteSets, TLC

VARIABLES
    \* ---- JobFailure construction (job_details_extractor.py) ----
    jf,                 \* the JobFailure constructed last, <<>> before any
    jf_passed,          \* the is_retryable argument the caller passed for it
    \* ---- _deduplicate_urls applied to a list ----
    dd_in,              \* the list given
    dd_once,            \* <<r>>: r = _deduplicate_urls(dd_in); <<>> before
    dd_twice,           \* <<r>>: r = _deduplicate_urls of dd_once's list
    \* ---- the company's server, as one AvatureMultiStrategyScraper sees it ----
    redirect,           \* its answer to GET original_base_url
    site_map,           \* the <loc> entries of its sitemap.xml
    listing,            \* its paginated job listing: a sequence of pages of hrefs
    \* ---- AvatureMultiStrategyScraper ----
    pc,                 \* where the scraper is
    original_base_url,
    base_url,           \* <<>> until __init__ has set it, then <<url>>
    strategy_used,
    successes, retries, failures,
    sitemap_urls, sitemap_job_ids,      \* locals of scrape_all_job_urls
    sample_urls,                        \* local of scrape_all_job_urls
    sample_page, sample_read, sample_stop,  \* _check_html_sample: page_num, pages read, why it ended
    urls, existing_job_ids, page_num, offset, page_size, retry_attempt, delay,
                        \* locals of _scrape_via_html_pagination
    fetches,            \* listing requests _scrape_via_html_pagination has issued
    stop_reason,        \* why its loop ended
    all_urls,           \* <<>>, or <<l>>: scrape_all_job_urls returned l
    \* ---- AvatureJobDetailsExtractor, one call of _fetch_job_detail_with_retry ----
    max_retries,
    recent_406_count,
    adaptive_delay,     \* in milliseconds
    f_pc,               \* "idle", "loop" (in the retry loop) or "returned"
    job_url,            \* the URL being fetched
    attempt,            \* the loop variable
    retry_wait,         \* the last sleep before a retry, in seconds
    result,             \* <<>>, or <<r>>: the last result of _fetch_job_detail
    built,              \* <<>>, or <<r>>: that result as _fetch_job_detail built it
    returned,           \* <<>>, or <<r>>: what _fetch_job_detail_with_retry returned
    tries,              \* per call of _fetch_job_detail: did it end in a transient failure
    \* ---- job_url_extractor.main: a run over the companies of a URL file ----
    url_lines,          \* the lines of the URL file
    companies,          \* what load_companies_from_file returned
    m_pc,               \* "idle", "loop", "save", "finished" or "no_companies"
    m_idx,              \* the index in companies of the company being processed
    combined_urls,      \* main's all_urls
    stats,              \* company name -> <<>>, or <<the company's statistics>>
    saved_files,        \* the files written by save_results, in order
    combined_file,      \* <<>>, or <<l>>: the combined output was written with l
    m_log,              \* per company processed: how its turn ended
    \* ---- RetryManager and URLProcessor: failures to retry files and back ----
    q_pc,               \* "idle", "start", "processed" or "read"
    q_failures,         \* the failures given to process_failures
    q_stats,            \* <<>>, or <<the statistics process_failures returned>>
    q_files,            \* the files in the retries directory, in the order written
    q_read,             \* the index in q_files of the file given to the URL processor
    q_entries,          \* <<>>, or <<l>>: process_input_file returned l
    q_round,            \* the number of the run of extract_job_details.main
    \* ---- AvatureJobDetailsExtractor.extract_from_urls: the worker pool ----
    x_pc,               \* "idle", "submit", "collect", "returned" or "raised"
    max_workers,        \* self.max_workers
    x_prior,            \* self.failures as it was when extract_from_urls was called
    x_urls,             \* the job_urls argument
    futures,            \* per URL: the state of its future
    collected,          \* the futures as_completed has yielded, in order
    jobs,               \* the local list jobs
    x_failures,         \* self.failures
    retryable_failures,
    permanent_failures,
    jobs_extracted,
    x_raised,           \* an exception has left extract_from_urls
    \* ---- AvatureJobDetailsExtractor._rate_limited_request, called by threads ----
    clock,              \* time.time(), in milliseconds
    last_request_time,  \* self.last_request_time, in milliseconds
    t_pc,               \* per thread: where it is in _rate_limited_request
    current_time,       \* per thread: its local current_time
    wake,               \* per thread: when its time.sleep ends
    requests            \* the times at which session.get was called, in order

jvars == <<jf, jf_passed>>
uvars == <<dd_in, dd_once, dd_twice>>
envvars == <<redirect, site_map, listing>>
samplevars == <<sample_page, sample_read, sample_stop>>
pagevars == <<urls, existing_job_ids, page_num, offset, page_size, retry_attempt, delay,
              fetches, stop_reason>>
dvars == <<envvars, pc, original_base_url, base_url, strategy_used, successes, retries,
           failures, sitemap_urls, sitemap_job_ids, sample_urls, samplevars, pagevars,
           all_urls>>
fvars == <<max_retries, recent_406_count, adaptive_delay, f_pc, job_url, attempt,
           retry_wait, result, built, returned, tries>>
mvars == <<url_lines, companies, m_pc, m_idx, combined_urls, stats, saved_files,
           combined_file, m_log>>
qvars == <<q_pc, q_failures, q_stats, q_files, q_read, q_entries, q_round>>
xvars == <<x_pc, max_workers, x_prior, x_urls, futures, collected, jobs, x_failures, retryable_failures,
           permanent_failures, jobs_extracted, x_raised>>
tvars == <<clock, last_request_time, t_pc, current_time, wake, requests>>
vars == <<jvars, uvars, dvars, fvars, mvars, qvars, xvars, tvars>>

\* ------------------------------------------------------------------ bounds

\* Longest list handed to _deduplicate_urls.
MaxLen == 3

\* ----------------------------------------------------------------- strings

RECURSIVE IndexOf(_, _, _)
\* Least index >= i of token t in s, 0 when there is none (str.find).
IndexOf(s, t, i) ==
    IF i > Len(s) THEN 0
    ELSE IF s[i] = t THEN i
    ELSE IndexOf(s, t, i + 1)

RECURSIVE LastIndexOf(_, _, _)
\* Greatest index <= i of token t in s, 0 when there is none (str.rfind).
LastIndexOf(s, t, i) ==
    IF i = 0 THEN 0
    ELSE IF s[i] = t THEN i
    ELSE LastIndexOf(s, t, i - 1)

\* s.split(t)[0]
SplitFirst(s, t) ==
    LET i == IndexOf(s, t, 1)
    IN  IF i = 0 THEN s ELSE SubSeq(s, 1, i - 1)

\* s.split(t)[-1]
SplitLast(s, t) ==
    LET i == LastIndexOf(s, t, Len(s))
    IN  SubSeq(s, i + 1, Len(s))

RECURSIVE RStrip(_, _)
\* s.rstrip(t)
RStrip(s, t) ==
    IF s # <<>> /\ s[Len(s)] = t THEN RStrip(SubSeq(s, 1, Len(s) - 1), t)
    ELSE s

\* s.endswith(suf)
EndsWith(s, suf) ==
    /\ Len(suf) <= Len(s)
    /\ SubSeq(s, Len(s) - Len(suf) + 1, Len(s)) = suf

\* sub in s
Contains(s, sub) ==
    \E i \in 1..(Len(s) - Len(sub) + 1) : SubSeq(s, i, i + Len(sub) - 1) = sub

Range(s) == {s[i] : i \in DOMAIN s}

\* -------------------------------------------------------------------- URLs

\* Job-detail URLs.  The first token stands for scheme, host and the path up
\* to the portal ("https://acme.avature.net/careers").
U1  == <<"https:acme", "/", "JobDetail", "/", "Engineer", "/", "1">>
U1Q == <<"https:acme", "/", "JobDetail", "/", "Engineer", "/", "1", "?", "src=rss">>
U1H == <<"http:acme", "/", "JobDetail", "/", "Engineer", "/", "1">>
U1S == <<"https:acme", "/", "JobDetail", "/", "Engineer", "/", "1", "/">>
U2  == <<"https:acme", "/", "JobDetail", "/", "Analyst", "/", "2">>
U2Q == <<"https:acme", "/", "JobDetail", "/", "Analyst", "/", "2", "?", "ref=", "/", "home">>
U3  == <<"https:acme", "/", "JobDetail", "/", "Clerk", "/", "3">>
\* A sitemap entry that is no job-detail URL.
USearch == <<"https:acme", "/", "SearchJobs", "/">>

\* AvatureMultiStrategyScraper._extract_job_id
_extract_job_id(url) ==
    LET without_query == SplitFirst(url, "?")
    IN  SplitLast(RStrip(without_query, "/"), "/")

\* ------------------------------------------------------------- deduplicate

\* The loop of _deduplicate_urls over urls[i..], with the locals seen_job_ids
\* and deduplicated.  _extract_job_id raises on no string, so the except
\* branch that keeps the URL is never taken.
RECURSIVE DedupLoop(_, _, _, _)
DedupLoop(list, i, seen_job_ids, deduplicated) ==
    IF i > Len(list) THEN deduplicated
    ELSE LET job_id == _extract_job_id(list[i])
         IN  IF job_id \notin seen_job_ids
             THEN DedupLoop(list, i + 1, seen_job_ids \cup {job_id},
                            Append(deduplicated, list[i]))
             ELSE DedupLoop(list, i + 1, seen_job_ids, deduplicated)

\* A deduplication that keeps the last URL of each job_id instead of the first.
RECURSIVE DedupKeepLast(_)
DedupKeepLast(list) ==
    IF list = <<>> THEN <<>>
    ELSE IF \E j \in 2..Len(list) : _extract_job_id(list[j]) = _extract_job_id(list[1])
         THEN DedupKeepLast(Tail(list))
         ELSE <<list[1]>> \o DedupKeepLast(Tail(list))

\* No deduplication at all.
DedupNothing(list) == list

\* AvatureMultiStrategyScraper._deduplicate_urls
_deduplicate_urls(list) == DedupLoop(list, 1, {}, <<>>)

\* -------------------------------------------------------------- JobFailure

\* An Optional[int] is <<>> (None) or <<n>>.
RetryableTypes ==
    {"timeout", "connection_error", "rate_limited", "server_error", "temporary_error"}

RetryableStatusCodes == {406, 429, 500, 502, 503, 504}

\* The classification by error type alone, without the status-code override.
DetermineByTypeOnly(error_type, http_status) == error_type \in RetryableTypes

\* JobFailure._determine_retryable
_determine_retryable(error_type, http_status) ==
    LET error_type_check == error_type \in RetryableTypes
        status_code_check ==
            IF http_status # <<>> /\ http_status[1] # 0
            THEN http_status[1] \in RetryableStatusCodes
            ELSE FALSE
    IN  error_type_check \/ status_code_check

\* JobFailure(...) with __post_init__: the is_retryable argument is overwritten.
JobFailure(url, job_id, error_type, http_status, retry_count, is_retryable) ==
    [type |-> "JobFailure",
     url |-> url,
     job_id |-> job_id,
     error_type |-> error_type,
     http_status |-> http_status,
     retry_count |-> retry_count,
     is_retryable |-> _determine_retryable(error_type, http_status)]

\* The error types of the taxonomy, and one outside it.
ErrorTypes ==
    RetryableTypes \cup
    {"http_error", "not_found", "access_forbidden", "missing_title",
     "position_filled", "applications_closed", "job_expired", "parse_error",
     "retry_exhausted", "processing_error"}

StatusArgs ==
    {<<>>} \cup {<<s>> : s \in {0, 200, 202, 400, 403, 404, 406, 429, 500, 502, 503, 504}}

JInit == jf = <<>> /\ jf_passed = FALSE

\* A caller constructs a JobFailure.
ConstructFailure ==
    \E error_type \in ErrorTypes, http_status \in StatusArgs, passed \in BOOLEAN :
        /\ jf' = <<JobFailure(U1, <<"1">>, error_type, http_status, 0, passed)>>
        /\ jf_passed' = passed
        /\ UNCHANGED <<uvars, dvars, fvars, mvars, qvars, xvars, tvars>>

\* ------------------------------------------------------------ dedup driver

DedupURLs == {U1, U1Q, U1S, U2, U3}

RECURSIVE SeqsUpTo(_, _)
\* The sequences over S of length at most n.
SeqsUpTo(S, n) ==
    IF n = 0 THEN {<<>>}
    ELSE LET shorter == SeqsUpTo(S, n - 1)
         IN  shorter \cup {Append(s, x) : s \in {t \in shorter : Len(t) = n - 1}, x \in S}

UIdle == dd_in = <<>> /\ dd_once = <<>> /\ dd_twice = <<>>

UInit == dd_in \in SeqsUpTo(DedupURLs, MaxLen) /\ dd_once = <<>> /\ dd_twice = <<>>

DedupOnce ==
    /\ dd_once = <<>>
    /\ dd_once' = <<_deduplicate_urls(dd_in)>>
    /\ UNCHANGED <<dd_in, dd_twice, jvars, dvars, fvars, mvars, qvars, xvars, tvars>>

DedupTwice ==
    /\ dd_once # <<>>
    /\ dd_twice = <<>>
    /\ dd_twice' = <<_deduplicate_urls(dd_once[1])>>
    /\ UNCHANGED <<dd_in, dd_once, jvars, dvars, fvars, mvars, qvars, xvars, tvars>>

\* ------------------------------------------------------- base-URL resolution

\* Company base URLs.  The first token is the scheme with "://".
Good      == <<"https://", "acme", ".", "avature", ".", "net", "/", "careers">>
GoodSlash == <<"https://", "acme", ".", "avature", ".", "net", "/", "careers", "/">>
GoodLocale == <<"https://", "acme", ".", "AVATURE", ".", "net", "/", "en_US", "/", "careers">>
Apex      == <<"https://", "avature", ".", "net">>
Koch      == <<"https://", "koch", ".", "avature", ".", "net", "/", "careers">>
KochResolved == <<"https://", "koch", ".", "avature", ".", "net", "/", "en_US", "/", "careers">>
\* Hosts that hold "avature.net" without being it or a subdomain of it.
Attacker  == <<"https://", "avature", ".", "net", ".", "attacker", ".", "net", "/", "careers">>
Attacker2 == <<"https://", "acme", ".", "avature", ".", "net", ".", "attacker", ".", "net", "/", "careers">>
LookAlike == <<"https://", "notavature", ".", "net", "/", "careers">>
\* A host that does not hold it at all.
Elsewhere == <<"https://", "jobs", ".", "example", ".", "com", "/", "careers">>

\* str.lower() on the tokens the model uses.
Lower(s) == [i \in DOMAIN s |-> IF s[i] = "AVATURE" THEN "avature" ELSE s[i]]

\* urlparse(url).netloc: what follows "scheme://" up to the path or the query.
netloc(url) == SplitFirst(SplitFirst(Tail(url), "/"), "?")

AvatureNet == <<"avature", ".", "net">>

\* AvatureMultiStrategyScraper._is_avature_domain
_is_avature_domain(url) ==
    LET domain == Lower(netloc(url))
    IN  domain = AvatureNet \/ EndsWith(domain, <<".">> \o AvatureNet)

\* The host holds 'avature.net' only as a substring.
SubstringOnly(url) ==
    /\ Contains(Lower(netloc(url)), AvatureNet)
    /\ ~ _is_avature_domain(url)

\* The outcome of _resolve_base_url for self.original_base_url = orig and the
\* server's answer r: [raised |-> TRUE] for the external_redirect exception,
\* else the URL returned.  The AWS WAF token only sets cookies.
_resolve_base_url(orig, r) ==
    IF Contains(Lower(orig), <<"koch">>)
    THEN [raised |-> FALSE, url |-> KochResolved]
    ELSE IF r.kind = "exception"
    THEN [raised |-> FALSE, url |-> orig]
    ELSE LET final_url == RStrip(r.url, "/")
         IN  IF final_url # orig /\ ~ _is_avature_domain(final_url)
             THEN [raised |-> TRUE, url |-> <<>>]
             ELSE IF r.status \in {200, 202}
             THEN [raised |-> FALSE, url |-> final_url]
             ELSE IF _is_avature_domain(final_url)
             THEN [raised |-> FALSE, url |-> final_url]
             ELSE [raised |-> FALSE, url |-> orig]

\* AvatureMultiStrategyScraper.__init__: before it, original_base_url holds the
\* base_url argument.  The exception of _resolve_base_url leaves __init__, so
\* no scraper exists and scrape_all_job_urls is never called on it.
Construct ==
    /\ pc = "new"
    /\ LET orig == RStrip(original_base_url, "/")
           res == _resolve_base_url(orig, redirect)
       IN  /\ original_base_url' = orig
           /\ IF res.raised
              THEN pc' = "external_redirect" /\ base_url' = <<>>
              ELSE pc' = "constructed" /\ base_url' = <<res.url>>
    /\ UNCHANGED <<envvars, strategy_used, successes, retries, failures, sitemap_urls,
                   sitemap_job_ids, sample_urls, samplevars, pagevars, all_urls>>
    /\ UNCHANGED <<jvars, uvars, fvars, mvars, qvars, xvars, tvars>>

\* ------------------------------------------------------------------ sitemap

JobDetailMark == <<"/", "JobDetail", "/">>

RECURSIVE JobDetailOnly(_)
\* _get_job_urls_from_sitemap's filter: [url for loc in locs if '/JobDetail/' in url]
JobDetailOnly(locs) ==
    IF locs = <<>> THEN <<>>
    ELSE IF Contains(Head(locs), JobDetailMark)
         THEN <<Head(locs)>> \o JobDetailOnly(Tail(locs))
         ELSE JobDetailOnly(Tail(locs))

\* _get_job_urls_from_sitemap: fetched says the GET answered 200 with XML; any
\* other status and any exception give [].
_get_job_urls_from_sitemap(fetched) ==
    IF fetched THEN JobDetailOnly(site_map) ELSE <<>>

URLSuccess(url, job_id, source) == [url |-> url, job_id |-> job_id, source |-> source]

URLFailure(source, error_type, http_status) ==
    [source |-> source, error_type |-> error_type, http_status |-> http_status]

RECURSIVE UrlsOfSource(_, _)
\* [s.url for s in succ if s.source == source]
UrlsOfSource(succ, source) ==
    IF succ = <<>> THEN <<>>
    ELSE IF Head(succ).source = source
         THEN <<Head(succ).url>> \o UrlsOfSource(Tail(succ), source)
         ELSE UrlsOfSource(Tail(succ), source)

JobIds(list) == {_extract_job_id(list[i]) : i \in DOMAIN list}

\* The first part of scrape_all_job_urls, up to the first listing request:
\* _try_sitemap_strategy and the choice between HTML only and gap detection.
\* The job count and the RSS check before it only log and set rss_available.
TrySitemap ==
    /\ pc = "constructed"
    /\ \E fetched \in BOOLEAN :
         LET job_urls == _get_job_urls_from_sitemap(fetched)
             succ == successes \o
                     [i \in DOMAIN job_urls |->
                        URLSuccess(job_urls[i], _extract_job_id(job_urls[i]), "sitemap")]
         IN  IF job_urls = <<>>
             THEN /\ sitemap_urls' = <<>>
                  /\ sitemap_job_ids' = {}
                  /\ successes' = successes
                  /\ pc' = "start_pagination"
                  /\ existing_job_ids' = {}
                  /\ UNCHANGED samplevars
             ELSE /\ successes' = succ
                  /\ sitemap_urls' = UrlsOfSource(succ, "sitemap")
                  /\ sitemap_job_ids' = JobIds(job_urls)
                  /\ pc' = "sample"
                  /\ sample_page' = 1
                  /\ sample_read' = 0
                  /\ sample_stop' = "none"
                  /\ UNCHANGED existing_job_ids
    /\ UNCHANGED <<envvars, original_base_url, base_url, strategy_used, retries, failures,
                   sample_urls, urls, page_num, offset, page_size, retry_attempt, delay,
                   fetches, stop_reason, all_urls>>
    /\ UNCHANGED <<jvars, uvars, fvars, mvars, qvars, xvars, tvars>>

\* ------------------------------------------------------------ gap detection

\* pages=3 in scrape_all_job_urls' call of _check_html_sample
SamplePages == 3

\* The listing page the server returns as page k: the pages after the last are empty.
PageAt(k) == IF k \in 1..Len(listing) THEN listing[k] ELSE <<>>

\* article.find('a', href=re.compile(r'/(JobDetail|FolderDetail|PipelineDetail)/'))
HasJobLink(href) ==
    \E m \in {"JobDetail", "FolderDetail", "PipelineDetail"} : Contains(href, <<"/", m, "/">>)

RECURSIVE SampleAll(_, _)
\* A sample that takes every job URL for new, whatever the sitemap holds.
SampleAll(articles, existing) ==
    IF articles = <<>> THEN <<>>
    ELSE IF HasJobLink(Head(articles))
         THEN <<Head(articles)>> \o SampleAll(Tail(articles), existing)
         ELSE SampleAll(Tail(articles), existing)

RECURSIVE SampleNew(_, _)
\* _check_html_sample's loop over a page's articles: the job URLs whose job_id
\* is not in existing_job_ids.
SampleNew(articles, existing) ==
    IF articles = <<>> THEN <<>>
    ELSE IF HasJobLink(Head(articles)) /\ _extract_job_id(Head(articles)) \notin existing
         THEN <<Head(articles)>> \o SampleNew(Tail(articles), existing)
         ELSE SampleNew(Tail(articles), existing)

\* _check_html_sample returns new_urls to scrape_all_job_urls, which either
\* accepts the sitemap as complete or goes on to the full pagination.
EndSample(new_urls) ==
    IF new_urls # <<>>
    THEN /\ pc' = "start_pagination"
         /\ existing_job_ids' = sitemap_job_ids
         /\ UNCHANGED <<strategy_used, all_urls>>
    ELSE /\ pc' = "done"
         /\ strategy_used' = "sitemap_only"
         /\ all_urls' = <<sitemap_urls>>
         /\ UNCHANGED existing_job_ids

\* One round of _check_html_sample's loop whose request is answered 200 or 202.
SampleOK ==
    /\ pc = "sample"
    /\ LET articles == PageAt(sample_page)
           new_urls == sample_urls \o SampleNew(articles, sitemap_job_ids)
       IN  IF articles = <<>>
           THEN /\ sample_stop' = "empty"
                /\ UNCHANGED <<sample_urls, sample_page, sample_read>>
                /\ EndSample(sample_urls)
           ELSE /\ sample_urls' = new_urls
                /\ sample_read' = sample_read + 1
                /\ IF sample_page = SamplePages
                   THEN /\ sample_stop' = "end"
                        /\ UNCHANGED sample_page
                        /\ EndSample(new_urls)
                   ELSE /\ sample_page' = sample_page + 1
                        /\ UNCHANGED <<sample_stop, pc, existing_job_ids, strategy_used,
                                       all_urls>>
    /\ UNCHANGED <<envvars, original_base_url, base_url, successes, retries, failures,
                   sitemap_urls, sitemap_job_ids, urls, page_num, offset, page_size,
                   retry_attempt, delay, fetches, stop_reason>>
    /\ UNCHANGED <<jvars, uvars, fvars, mvars, qvars, xvars, tvars>>

\* One round whose request is answered 429, another status that is not 200 or
\* 202, or raises: the loop breaks.
SampleFail ==
    /\ pc = "sample"
    /\ \E reason \in {"429", "status", "exception"} : sample_stop' = reason
    /\ EndSample(sample_urls)
    /\ UNCHANGED <<envvars, original_base_url, base_url, successes, retries, failures,
                   sitemap_urls, sitemap_job_ids, sample_urls, sample_page, sample_read,
                   urls, page_num, offset, page_size, retry_attempt, delay, fetches,
                   stop_reason>>
    /\ UNCHANGED <<jvars, uvars, fvars, mvars, qvars, xvars, tvars>>

\* ---------------------------------------------------------- HTML pagination

\* _detect_page_size's fallback
DefaultPageSize == 10
\* "Max 5 retries per page"
MaxPageRetries == 5
\* delay = min(60 * (2 ** (retry_attempt - 1)), 300)
BackoffBase == 60
BackoffCap == 300

Min(a, b) == IF a < b THEN a ELSE b
Max(a, b) == IF a > b THEN a ELSE b

\* The wait computed without the 300 s cap.
RetryDelayUncapped(n) == BackoffBase * (2 ^ (n - 1))

\* delay = min(60 * (2 ** (retry_attempt - 1)), 300)
RetryDelay(n) == Min(BackoffBase * (2 ^ (n - 1)), BackoffCap)

\* _detect_page_size: the containers of the unpaginated listing page (the
\* server's first page), 10 when there is none; a request that raises gives
\* 10 as well.
_detect_page_size == IF PageAt(1) # <<>> THEN Len(PageAt(1)) ELSE DefaultPageSize

\* The head of _scrape_via_html_pagination, up to its loop.
StartPagination ==
    /\ pc = "start_pagination"
    /\ page_size' = _detect_page_size
    /\ urls' = <<>>
    /\ page_num' = 1
    /\ offset' = 0
    /\ retry_attempt' = 0
    /\ pc' = "paginate"
    /\ sample_page' = 0 /\ sample_read' = 0 /\ sample_stop' = "none"
    /\ UNCHANGED <<envvars, original_base_url, base_url, strategy_used, successes, retries,
                   failures, sitemap_urls, sitemap_job_ids, sample_urls, existing_job_ids,
                   delay, fetches, stop_reason, all_urls>>
    /\ UNCHANGED <<jvars, uvars, fvars, mvars, qvars, xvars, tvars>>

\* The page the server returns for the request with this offset and page size.
PageForOffset(off, size) == PageAt((off \div size) + 1)

RECURSIVE ProcessArticles(_, _)
\* The loop over a page's articles: st holds urls, existing (existing_job_ids),
\* succ (self.successes) and count (new_urls_count).
ProcessArticles(articles, st) ==
    IF articles = <<>> THEN st
    ELSE LET href == Head(articles)
             job_id == _extract_job_id(href)
         IN  IF ~ HasJobLink(href) \/ job_id \in st.existing
             THEN ProcessArticles(Tail(articles), st)
             ELSE ProcessArticles(Tail(articles),
                    [urls |-> Append(st.urls, href),
                     existing |-> st.existing \cup {job_id},
                     succ |-> Append(st.succ, URLSuccess(href, job_id, "html")),
                     count |-> st.count + 1])

\* Whether the sitemap strategy gave scrape_all_job_urls no URL (HTML only).
\* The strategy named without looking at what the sitemap gave.
HtmlOnlyNever == FALSE

\* "if not sitemap_urls": the sitemap gave nothing, the listing is the only source.
HtmlOnly == sitemap_urls = <<>>

\* _scrape_via_html_pagination returns html_urls to scrape_all_job_urls, which
\* returns all_urls.  existing_job_ids is the very set sitemap_job_ids names.
Return(html_urls, existing, reason) ==
    /\ pc' = "done"
    /\ stop_reason' = reason
    /\ existing_job_ids' = existing
    /\ sitemap_job_ids' = IF HtmlOnly THEN sitemap_job_ids ELSE existing
    /\ IF HtmlOnly
       THEN /\ all_urls' = <<html_urls>>
            /\ strategy_used' = "html_only"
       ELSE /\ all_urls' = <<_deduplicate_urls(sitemap_urls \o html_urls)>>
            /\ strategy_used' = "sitemap_plus_html"

\* A loop that goes on to the next page after a rejected request.
SkipsRejectedPage(off, size) == off + size

\* "continue  # Retry the same page": the offset of the request after a 406 or 429.
OffsetAfterRejection(off, size) == off

\* A listing request answered 406 or 429.
PageRateLimited ==
    /\ pc = "paginate"
    /\ \E status_code \in {406, 429} :
         /\ fetches' = fetches + 1
         /\ offset' = OffsetAfterRejection(offset, page_size)
         /\ retry_attempt' = retry_attempt + 1
         /\ IF retry_attempt + 1 > MaxPageRetries
            THEN /\ Return(urls, existing_job_ids, "max_retries")
                 /\ UNCHANGED delay
            ELSE /\ delay' = RetryDelay(retry_attempt + 1)
                 /\ UNCHANGED <<pc, stop_reason, existing_job_ids, sitemap_job_ids,
                                all_urls, strategy_used>>
    /\ UNCHANGED <<envvars, original_base_url, base_url, successes, retries, failures,
                   sitemap_urls, sample_urls, samplevars, urls, page_num, page_size>>
    /\ UNCHANGED <<jvars, uvars, fvars, mvars, qvars, xvars, tvars>>

\* A listing request answered with another status that is not 200 or 202.
PageHttpError ==
    /\ pc = "paginate"
    /\ \E status_code \in {403, 500} :
         failures' = Append(failures, URLFailure("html", "http_error", <<status_code>>))
    /\ fetches' = fetches + 1
    /\ Return(urls, existing_job_ids, "http_error")
    /\ UNCHANGED <<envvars, original_base_url, base_url, successes, retries, sitemap_urls,
                   sample_urls, samplevars, urls, page_num, offset, page_size,
                   retry_attempt, delay>>
    /\ UNCHANGED <<jvars, uvars, fvars, mvars, qvars, xvars, tvars>>

\* A listing request that times out or cannot connect.
PageRetryLater ==
    /\ pc = "paginate"
    /\ \E error_type \in {"timeout", "connection_error"} :
         /\ retries' = Append(retries, URLFailure("html", error_type, <<>>))
         /\ Return(urls, existing_job_ids, error_type)
    /\ fetches' = fetches + 1
    /\ UNCHANGED <<envvars, original_base_url, base_url, successes, failures, sitemap_urls,
                   sample_urls, samplevars, urls, page_num, offset, page_size,
                   retry_attempt, delay>>
    /\ UNCHANGED <<jvars, uvars, fvars, mvars, qvars, xvars, tvars>>

\* A round of the loop that raises anything else.
PageUnexpected ==
    /\ pc = "paginate"
    /\ failures' = Append(failures, URLFailure("html", "unexpected_error", <<>>))
    /\ fetches' = fetches + 1
    /\ Return(urls, existing_job_ids, "unexpected_error")
    /\ UNCHANGED <<envvars, original_base_url, base_url, successes, retries, sitemap_urls,
                   sample_urls, samplevars, urls, page_num, offset, page_size,
                   retry_attempt, delay>>
    /\ UNCHANGED <<jvars, uvars, fvars, mvars, qvars, xvars, tvars>>

\* A stop as soon as a page is shorter than the detected page size.
StopsWhenShort(articles, new_urls_count) ==
    new_urls_count = 0 \/ Len(articles) < page_size

\* Whether the loop ends after a page that was read: no new URL on it ("if
\* new_urls_count == 0"), or no article ("if len(articles) == 0").
StopsAfter(articles, new_urls_count) == new_urls_count = 0 \/ Len(articles) = 0

\* A listing request answered 200 or 202.
PageOK ==
    /\ pc = "paginate"
    /\ fetches' = fetches + 1
    /\ LET articles == PageForOffset(offset, page_size)
           st == ProcessArticles(articles,
                    [urls |-> urls, existing |-> existing_job_ids, succ |-> successes,
                     count |-> 0])
       IN  IF articles = <<>>
           THEN /\ Return(urls, existing_job_ids, "empty_page")
                /\ UNCHANGED <<urls, successes, retry_attempt, page_num, offset>>
           ELSE /\ urls' = st.urls
                /\ successes' = st.succ
                /\ retry_attempt' = 0
                /\ IF StopsAfter(articles, st.count)
                   THEN /\ Return(st.urls, st.existing, "no_new_urls")
                        /\ UNCHANGED <<page_num, offset>>
                   ELSE /\ page_num' = page_num + 1
                        /\ offset' = offset + page_size
                        /\ existing_job_ids' = st.existing
                        /\ sitemap_job_ids' =
                             IF HtmlOnly THEN sitemap_job_ids ELSE st.existing
                        /\ UNCHANGED <<pc, stop_reason, all_urls, strategy_used>>
    /\ UNCHANGED <<envvars, original_base_url, base_url, retries, failures, sitemap_urls,
                   sample_urls, samplevars, page_size, delay>>
    /\ UNCHANGED <<jvars, uvars, fvars, mvars, qvars, xvars, tvars>>

\* ----------------------------------------------------------------- drivers

\* Most pages a listing holds before its pages stay empty.
MaxPages == 3

\* What a sitemap.xml may list.
SitemapChoices ==
    {<<USearch>>, <<U1>>, <<USearch, U1Q>>, <<U1, U1Q>>, <<U1, U2>>, <<U2, U1, U3>>}

\* What a listing page may hold: nothing, job links of either scheme, with and
\* without a query, and a container without a job link.
PageChoices == {<<>>, <<U1>>, <<U3>>, <<U1H, U2>>, <<USearch>>}

DIdle ==
    /\ pc = "idle"
    /\ redirect = <<>> /\ site_map = <<>> /\ listing = <<>>
    /\ original_base_url = <<>> /\ base_url = <<>>

DRest ==
    /\ strategy_used = "None"
    /\ successes = <<>> /\ retries = <<>> /\ failures = <<>>
    /\ sitemap_urls = <<>> /\ sitemap_job_ids = {} /\ sample_urls = <<>>
    /\ sample_page = 0 /\ sample_read = 0 /\ sample_stop = "none"
    /\ urls = <<>> /\ existing_job_ids = {} /\ page_num = 0 /\ offset = 0
    /\ page_size = 0 /\ retry_attempt = 0 /\ delay = 0 /\ fetches = 0
    /\ stop_reason = "none"
    /\ all_urls = <<>>

DFresh == pc = "new" /\ base_url = <<>> /\ DRest

Response(url, status) == [kind |-> "response", url |-> url, status |-> status]

RaisedInstead == [kind |-> "exception", url |-> <<>>, status |-> 0]

\* One company whose base URL answers without a redirect; any sitemap and listing.
DInit ==
    /\ original_base_url \in {Good}
    /\ redirect = Response(original_base_url, 200)
    /\ site_map \in SitemapChoices
    /\ listing \in SeqsUpTo(PageChoices, MaxPages)
    /\ DFresh

\* Any base URL and any answer to it; one sitemap and listing.
RInit ==
    /\ original_base_url \in {Good, GoodSlash, Apex, Koch, Attacker, Attacker2, LookAlike,
                              Elsewhere}
    /\ redirect \in
         {RaisedInstead} \cup
         {Response(u, s) :
            u \in {original_base_url, GoodSlash, GoodLocale, Apex, Attacker, Attacker2,
                   LookAlike, Elsewhere},
            s \in {200, 404}}
    /\ site_map = <<U1>>
    /\ listing = <<<<U1H, U2>>, <<U3>>>>
    /\ DFresh

NextDiscovery ==
    \/ Construct
    \/ TrySitemap
    \/ SampleOK
    \/ SampleFail
    \/ StartPagination
    \/ PageRateLimited
    \/ PageHttpError
    \/ PageRetryLater
    \/ PageUnexpected
    \/ PageOK

\* ------------------------------------- AvatureJobDetailsExtractor: one fetch

\* The largest max_retries explored.
RetriesBound == 3

RequestDelayMs == 500
MaxAdaptiveDelayMs == 5000
RetryBase == 3
RetryCap == 30

\* AvatureJobDetailsExtractor._extract_job_id: the query string is kept.
details_extract_job_id(url) == SplitLast(RStrip(url, "/"), "/")

Job(url, job_id) == [type |-> "Job", url |-> url, job_id |-> job_id]

\* What one GET of a job page can do: raise, or answer with a status and a body.
DetailStatuses == {200, 202, 403, 404, 406, 429, 500, 501, 503}
Bodies == {"filled", "closed", "expired", "no_title", "job"}
DetailResponses ==
    {[kind |-> k, status |-> 0, body |-> "job"] :
        k \in {"timeout", "connection_error", "exception"}}
    \cup {[kind |-> "response", status |-> 200, body |-> b] : b \in Bodies}
    \cup {[kind |-> "response", status |-> st, body |-> "job"] :
            st \in DetailStatuses \ {200}}

\* _adjust_adaptive_delay, in milliseconds:
\* min(request_delay * (1 + min(count * 0.5, 4.0)), max_adaptive_delay)
_adjust_adaptive_delay(count, current) ==
    IF count > 0
    THEN Min(RequestDelayMs + (RequestDelayMs * Min(count, 8)) \div 2, MaxAdaptiveDelayMs)
    ELSE current

\* The value _fetch_job_detail returns for a response.
_fetch_job_detail(url, resp) ==
    LET job_id == details_extract_job_id(url)
        fail(error_type, http_status) ==
            JobFailure(url, job_id, error_type, http_status, 0, FALSE)
    IN  CASE resp.kind = "timeout" -> fail("timeout", <<>>)
          [] resp.kind = "connection_error" -> fail("connection_error", <<>>)
          [] resp.kind = "exception" -> fail("parse_error", <<>>)
          [] OTHER ->
                IF resp.status = 404 THEN fail("not_found", <<404>>)
                ELSE IF resp.status = 403 THEN fail("access_forbidden", <<403>>)
                ELSE IF resp.status = 406 THEN fail("rate_limited", <<406>>)
                ELSE IF resp.status = 429 THEN fail("rate_limited", <<429>>)
                ELSE IF resp.status >= 500 THEN fail("server_error", <<resp.status>>)
                ELSE IF resp.status # 200 THEN fail("http_error", <<resp.status>>)
                ELSE IF resp.body = "filled" THEN fail("position_filled", <<200>>)
                ELSE IF resp.body = "closed" THEN fail("applications_closed", <<200>>)
                ELSE IF resp.body = "expired" THEN fail("job_expired", <<200>>)
                ELSE IF resp.body = "no_title" THEN fail("missing_title", <<200>>)
                ELSE Job(url, job_id)

\* A sleep whose cap, not whose base, is doubled after a 406.
RetrySleepCapDoubled(n, count) ==
    Min(RetryBase ^ n, IF count > 0 THEN RetryCap * 2 ELSE RetryCap)

\* The sleep before retry number n: min(3^n, 30), the base doubled after a 406.
RetrySleep(n, count) ==
    LET base_delay == RetryBase ^ n
    IN  Min(IF count > 0 THEN base_delay * 2 ELSE base_delay, RetryCap)

\* A retry that looks at the error type "timeout" alone.
RetriesTimeoutOnly(r, n, bound) ==
    r.type = "JobFailure" /\ r.error_type = "timeout" /\ n < bound

\* The condition under which the loop continues with the next attempt.
RetriesAgain(r, n, bound) ==
    r.type = "JobFailure" /\ r.is_retryable /\ n < bound

\* A failure of a transient class: by its error type or by its HTTP status.
TransientOutcome(r) ==
    /\ r.type = "JobFailure"
    /\ \/ r.error_type \in {"timeout", "connection_error", "rate_limited", "server_error"}
       \/ r.http_status # <<>> /\ r.http_status[1] \in {406, 429, 500, 502, 503, 504}

FIdle ==
    /\ max_retries = 3
    /\ recent_406_count = 0
    /\ adaptive_delay = RequestDelayMs
    /\ f_pc = "idle"
    /\ job_url = <<>>
    /\ attempt = 0
    /\ retry_wait = 0
    /\ result = <<>>
    /\ built = <<>>
    /\ returned = <<>>
    /\ tries = <<>>

\* An extractor built with some max_retries has entered
\* _fetch_job_detail_with_retry for a URL.
FInit ==
    /\ max_retries \in 0..RetriesBound
    /\ recent_406_count = 0
    /\ adaptive_delay = RequestDelayMs
    /\ f_pc = "loop"
    /\ job_url \in {U1, U2Q}
    /\ attempt = 0
    /\ retry_wait = 0
    /\ result = <<>>
    /\ built = <<>>
    /\ returned = <<>>
    /\ tries = <<>>

\* One iteration of the retry loop: the sleep, the request, the decision.
Attempt ==
    /\ f_pc = "loop"
    /\ attempt <= max_retries
    /\ \E resp \in DetailResponses :
        LET got406 == resp.kind = "response" /\ resp.status = 406
            count == IF got406 THEN recent_406_count + 1 ELSE recent_406_count
            fetched == _fetch_job_detail(job_url, resp)
            again == RetriesAgain(fetched, attempt, max_retries)
            kept == IF again THEN [fetched EXCEPT !.retry_count = attempt + 1]
                    ELSE fetched
        IN  /\ retry_wait' = IF attempt > 0
                             THEN RetrySleep(attempt, recent_406_count)
                             ELSE retry_wait
            /\ recent_406_count' = count
            /\ adaptive_delay' = IF got406
                                 THEN _adjust_adaptive_delay(count, adaptive_delay)
                                 ELSE adaptive_delay
            /\ result' = <<kept>>
            /\ built' = <<fetched>>
            /\ tries' = Append(tries, TransientOutcome(fetched))
            /\ IF again
               THEN /\ attempt' = attempt + 1
                    /\ UNCHANGED <<f_pc, returned>>
               ELSE /\ f_pc' = "returned"
                    /\ returned' = <<fetched>>
                    /\ UNCHANGED attempt
    /\ UNCHANGED <<max_retries, job_url, jvars, uvars, dvars, mvars, qvars, xvars, tvars>>

\* ------------------------------------------- job_url_extractor.main: a batch

Globex  == <<"https://", "globex", ".", "avature", ".", "net", "/", "careers">>
Initech == <<"https://", "initech", ".", "avature", ".", "net", "/", "careers">>

DotAvatureNet == <<".", "avature", ".", "net">>

RECURSIVE Replace(_, _)
\* str.replace(old, ''): every occurrence of old is removed, left to right.
Replace(s, old) ==
    IF Len(s) < Len(old) THEN s
    ELSE IF SubSeq(s, 1, Len(old)) = old
    THEN Replace(SubSeq(s, Len(old) + 1, Len(s)), old)
    ELSE <<Head(s)>> \o Replace(Tail(s), old)

RECURSIVE load_companies_from_file(_)
\* load_companies_from_file: a line is kept when its netloc holds '.avature.net',
\* and the company is named by the netloc without it.
load_companies_from_file(lines) ==
    IF lines = <<>> THEN <<>>
    ELSE LET line == Head(lines)
             host == netloc(line)
             rest == load_companies_from_file(Tail(lines))
         IN  IF host # <<>> /\ Contains(host, DotAvatureNet)
             THEN <<[company_name |-> Replace(host, DotAvatureNet), base_url |-> line]>>
                  \o rest
             ELSE rest

\* The URL files of the runs explored.
UrlFiles ==
    {<<Good>>, <<Globex>>, <<Elsewhere>>, <<Globex, Good>>, <<Good, Globex>>,
     <<Initech, Globex>>, <<Globex, Elsewhere, Initech>>, <<Attacker2, Good>>,
     <<Good, Globex, Initech>>}

\* What the server behind a base URL answers: acme serves a sitemap with a gap,
\* globex has moved to another host, initech has no sitemap entries, and the
\* look-alike host answers as it is asked.
Server(url) ==
    IF url = Good
    THEN [redirect |-> Response(Good, 200), site_map |-> <<U1>>,
          listing |-> << <<U1H, U2>> >>]
    ELSE IF url = Globex
    THEN [redirect |-> Response(Elsewhere, 200), site_map |-> <<U3>>,
          listing |-> << <<U3>> >>]
    ELSE IF url = Initech
    THEN [redirect |-> Response(Initech, 404), site_map |-> <<USearch>>,
          listing |-> << <<U3>> >>]
    ELSE [redirect |-> Response(url, 200), site_map |-> <<U2>>, listing |-> <<>>]

CompanyNames ==
    {Replace(netloc(u), DotAvatureNet) : u \in {Good, Globex, Initech, Attacker2}}

\* The loop of main takes up company i: nothing of a scraper exists yet.
StartCompany(i) ==
    /\ pc' = "new"
    /\ original_base_url' = companies[i].base_url
    /\ base_url' = <<>>
    /\ redirect' = Server(companies[i].base_url).redirect
    /\ site_map' = Server(companies[i].base_url).site_map
    /\ listing' = Server(companies[i].base_url).listing
    /\ strategy_used' = "None"
    /\ successes' = <<>> /\ retries' = <<>> /\ failures' = <<>>
    /\ sitemap_urls' = <<>> /\ sitemap_job_ids' = {} /\ sample_urls' = <<>>
    /\ sample_page' = 0 /\ sample_read' = 0 /\ sample_stop' = "none"
    /\ urls' = <<>> /\ existing_job_ids' = {} /\ page_num' = 0 /\ offset' = 0
    /\ page_size' = 0 /\ retry_attempt' = 0 /\ delay' = 0 /\ fetches' = 0
    /\ stop_reason' = "none"
    /\ all_urls' = <<>>

\* A loop that an external redirect ends for every company still to come.
AbortOnRedirect ==
    IF m_idx < Len(companies) /\ pc # "external_redirect"
    THEN /\ m_idx' = m_idx + 1
         /\ StartCompany(m_idx + 1)
         /\ UNCHANGED m_pc
    ELSE /\ m_pc' = "save"
         /\ UNCHANGED <<m_idx, dvars>>

\* The end of one round of the loop: the next company, or the combined output.
Advance ==
    IF m_idx < Len(companies)
    THEN /\ m_idx' = m_idx + 1
         /\ StartCompany(m_idx + 1)
         /\ UNCHANGED m_pc
    ELSE /\ m_pc' = "save"
         /\ UNCHANGED <<m_idx, dvars>>

RECURSIVE WriteFiles(_, _, _)
\* save_results: one file per non-empty list, successes, retries, failures.
WriteFiles(files, company_name, lists) ==
    IF lists = <<>> THEN files
    ELSE WriteFiles(
            IF Head(lists).records # <<>>
            THEN Append(files, [kind |-> Head(lists).kind, company |-> company_name,
                                records |-> Head(lists).records])
            ELSE files,
            company_name, Tail(lists))

\* A company's turn ends: scrape_all_job_urls returned, or the constructor
\* raised external_redirect and a MockScraper with empty lists stands in.
MainRecord ==
    /\ m_pc = "loop"
    /\ pc \in {"done", "external_redirect"}
    /\ LET c == companies[m_idx]
           mock == pc = "external_redirect"
           found == IF mock THEN <<>> ELSE all_urls[1]
           s_successes == IF mock THEN <<>> ELSE successes
           s_retries == IF mock THEN <<>> ELSE retries
           s_failures == IF mock THEN <<>> ELSE failures
           strategy == IF mock THEN "external_redirect_detected" ELSE strategy_used
           files == IF mock THEN saved_files
                    ELSE WriteFiles(saved_files, c.company_name,
                            <<[kind |-> "success", records |-> s_successes],
                              [kind |-> "retry", records |-> s_retries],
                              [kind |-> "failure", records |-> s_failures]>>)
       IN  /\ combined_urls' = combined_urls \o found
           /\ saved_files' = files
           /\ stats' = [stats EXCEPT ![c.company_name] =
                          <<[urls_found |-> Len(found),
                             successes |-> Len(s_successes),
                             retries |-> Len(s_retries),
                             failures |-> Len(s_failures),
                             strategy_used |-> strategy]>>]
           /\ m_log' = Append(m_log,
                          [company_name |-> c.company_name, base_url |-> c.base_url,
                           ended |-> pc, urls |-> found, strategy |-> strategy,
                           failures |-> s_failures,
                           written |-> SubSeq(files, Len(saved_files) + 1, Len(files)),
                           requests |-> fetches + sample_read,
                           sitemap_read |-> successes # <<>> \/ page_size # 0])
    /\ Advance
    /\ UNCHANGED <<url_lines, companies, combined_file>>
    /\ UNCHANGED <<jvars, uvars, fvars, qvars, xvars, tvars>>

\* The constructor raises something else (the output directories cannot be
\* made): main logs it and continues with the next company.
MainUnexpected ==
    /\ m_pc = "loop"
    /\ pc = "new"
    /\ m_log' = Append(m_log,
                   [company_name |-> companies[m_idx].company_name,
                    base_url |-> companies[m_idx].base_url,
                    ended |-> "unexpected_error", urls |-> <<>>, strategy |-> "None",
                    failures |-> <<>>, written |-> <<>>, requests |-> 0,
                    sitemap_read |-> FALSE])
    /\ Advance
    /\ UNCHANGED <<url_lines, companies, combined_urls, stats, saved_files, combined_file>>
    /\ UNCHANGED <<jvars, uvars, fvars, qvars, xvars, tvars>>

\* After the loop: the combined URL file is written.
MainSave ==
    /\ m_pc = "save"
    /\ combined_file' = <<combined_urls>>
    /\ m_pc' = "finished"
    /\ UNCHANGED <<url_lines, companies, m_idx, combined_urls, stats, saved_files, m_log>>
    /\ UNCHANGED <<jvars, uvars, dvars, fvars, qvars, xvars, tvars>>

MIdle ==
    /\ url_lines = <<>> /\ companies = <<>> /\ m_pc = "idle" /\ m_idx = 0
    /\ combined_urls = <<>> /\ stats = [n \in CompanyNames |-> <<>>]
    /\ saved_files = <<>> /\ combined_file = <<>> /\ m_log = <<>>

\* main has loaded the companies of a URL file and takes up the first one;
\* without a company it returns at once.
MInit ==
    /\ url_lines \in UrlFiles
    /\ companies = load_companies_from_file(url_lines)
    /\ combined_urls = <<>> /\ stats = [n \in CompanyNames |-> <<>>]
    /\ saved_files = <<>> /\ combined_file = <<>> /\ m_log = <<>>
    /\ IF companies = <<>>
       THEN m_pc = "no_companies" /\ m_idx = 0 /\ DIdle /\ DRest
       ELSE /\ m_pc = "loop" /\ m_idx = 1
            /\ original_base_url = companies[1].base_url
            /\ redirect = Server(companies[1].base_url).redirect
            /\ site_map = Server(companies[1].base_url).site_map
            /\ listing = Server(companies[1].base_url).listing
            /\ DFresh

NextMain == NextDiscovery \/ MainRecord \/ MainUnexpected \/ MainSave

\* ----------------------------------------- RetryManager and URLProcessor

\* self.max_retry_attempts, self.retry_delays, self.rate_limit_cooldown
max_retry_attempts == 5
retry_delays == <<300, 600, 1200, 2400, 4800>>
rate_limit_cooldown == 1800

\* Job URLs written out in full, for the URL processor's tests.
J1      == Good \o <<"/", "JobDetail", "/", "Engineer", "/", "1">>
J2Q     == Globex \o <<"/", "JobDetail", "/", "Analyst", "/", "2", "?", "src=rss">>
JOld    == Initech \o <<"/", "jobs", "/", "3">>
JSearch == Good \o <<"/", "SearchJobs", "/">>
NoURL   == <<>>
\* An Avature site on the company's own host, a URL of another site, and a
\* URL without scheme and host.
JCustom   == Elsewhere \o <<"/", "JobDetail", "/", "Clerk", "/", "4">>
JForeign  == <<"https://", "jobs", ".", "example", ".", "com", "/", "jobs", "/", "3">>
JRelative == <<"/", "JobDetail", "/", "Engineer", "/", "1">>

\* A JobFailure with its company (<<>> for None, else <<name>>).
FailureOf(url, company, error_type, http_status, retry_count) ==
    JobFailure(url, details_extract_job_id(url), error_type, http_status, retry_count,
               FALSE)
    @@ [company |-> company]

\* The failures a run hands to the retry manager.
FailureChoices ==
    {FailureOf(J1, <<"acme">>, "timeout", <<>>, 0),
     FailureOf(J1, <<"acme">>, "server_error", <<503>>, 5),
     FailureOf(J2Q, <<>>, "rate_limited", <<406>>, 5),
     FailureOf(J2Q, <<"globex">>, "not_found", <<404>>, 0),
     FailureOf(JOld, <<"initech">>, "http_error", <<429>>, 1),
     FailureOf(JSearch, <<"acme">>, "timeout", <<>>, 2),
     FailureOf(NoURL, <<"acme">>, "connection_error", <<>>, 0),
     FailureOf(JCustom, <<"example">>, "server_error", <<500>>, 3),
     FailureOf(JForeign, <<"example">>, "parse_error", <<>>, 0),
     FailureOf(JRelative, <<"acme">>, "timeout", <<>>, 4)}

\* Every failure that is not rate-limited goes to the general retry queue.
BucketWithoutPermanent(failure) ==
    IF failure.error_type = "rate_limited" THEN "rate_limited" ELSE "retryable"

\* process_failures: the bucket of a failure.
Bucket(failure) ==
    IF failure.error_type = "rate_limited" THEN "rate_limited"
    ELSE IF failure.is_retryable /\ failure.retry_count < max_retry_attempts
    THEN "retryable"
    ELSE "permanent"

RECURSIVE InBucket(_, _)
\* The failures of a bucket, in the order given.
InBucket(list, bucket) ==
    IF list = <<>> THEN <<>>
    ELSE IF Bucket(Head(list)) = bucket
    THEN <<Head(list)>> \o InBucket(Tail(list), bucket)
    ELSE InBucket(Tail(list), bucket)

\* _get_retry_delay
_get_retry_delay(retry_count, retry_type) ==
    IF retry_type = "rate_limited" THEN rate_limit_cooldown
    ELSE IF retry_count < Len(retry_delays) THEN retry_delays[retry_count + 1]
    ELSE retry_delays[Len(retry_delays)]

\* JSON values: what json.dump writes for a Python value and json.loads reads.
JStr(v) == [j |-> "string", v |-> v]
JNum(n) == [j |-> "number", v |-> n]
JBool(b) == [j |-> "bool", v |-> b]
JNull == [j |-> "null"]
\* An Optional value, <<>> for None.
JOptStr(o) == IF o = <<>> THEN JNull ELSE JStr(o[1])
JOptNum(o) == IF o = <<>> THEN JNull ELSE JNum(o[1])

\* json.loads of a field, <<>> for null (None) and for a missing key's None.
PyOpt(json) == IF json.j = "null" THEN <<>> ELSE <<json.v>>

\* asdict(failure) as JSON, without error_message and timestamp, which the URL
\* processor never reads.
asdict(failure) ==
    [url |-> JStr(failure.url),
     job_id |-> JStr(failure.job_id),
     company |-> JOptStr(failure.company),
     error_type |-> JStr(failure.error_type),
     http_status |-> JOptNum(failure.http_status),
     retry_count |-> JNum(failure.retry_count),
     is_retryable |-> JBool(failure.is_retryable)]

\* One item of a retry queue: the failure and the retry_metadata the URL
\* processor reads, with the recommended delay.
retry_item(failure, retry_type) ==
    asdict(failure) @@
    [retry_metadata |->
        [retry_attempt |-> JNum(failure.retry_count + 1),
         max_retries |-> JNum(max_retry_attempts),
         recommended_delay |-> JNum(_get_retry_delay(failure.retry_count, retry_type))]]

\* _save_retry_queue: the file it writes.  from keeps the failures it was given.
_save_retry_queue(list, prefix, retry_type) ==
    [prefix |-> prefix, suffix |-> "jsonl", from |-> list,
     text |-> [metadata |-> [retry_type |-> JStr(retry_type),
                             total_items |-> JNum(Len(list))],
               failures |-> [i \in DOMAIN list |-> retry_item(list[i], retry_type)]]]

\* _save_failure_analysis: the file of the permanent failures.
_save_failure_analysis(list) ==
    [prefix |-> "permanent_failures", suffix |-> "jsonl", from |-> list,
     text |-> [metadata |-> [total_failures |-> JNum(Len(list))],
               failures |-> [i \in DOMAIN list |-> asdict(list[i])]]]

\* RetryManager.process_failures
ProcessFailures ==
    /\ q_pc = "start"
    /\ LET retryable == InBucket(q_failures, "retryable")
           rate_limited == InBucket(q_failures, "rate_limited")
           permanent == InBucket(q_failures, "permanent")
           f1 == IF retryable # <<>>
                 THEN Append(q_files, _save_retry_queue(retryable, "retryable", "general"))
                 ELSE q_files
           f2 == IF rate_limited # <<>>
                 THEN Append(f1, _save_retry_queue(rate_limited, "rate_limited",
                                                   "rate_limited"))
                 ELSE f1
           f3 == IF permanent # <<>>
                 THEN Append(f2, _save_failure_analysis(permanent))
                 ELSE f2
       IN  /\ q_stats' = <<[total_failures |-> Len(q_failures),
                            retryable |-> Len(retryable),
                            rate_limited |-> Len(rate_limited),
                            permanent |-> Len(permanent)]>>
           /\ q_files' = f3
    /\ q_pc' = "processed"
    /\ UNCHANGED <<q_failures, q_read, q_entries, q_round>>
    /\ UNCHANGED <<jvars, uvars, dvars, fvars, mvars, xvars, tvars>>

\* _is_valid_url: urlparse finds a scheme and a netloc.
_is_valid_url(url) ==
    /\ url # <<>>
    /\ Head(url) \in {"https://", "http://"}
    /\ netloc(url) # <<>>

\* _is_avature_url: one of the patterns \.avature\.net, /careers, /JobDetail/,
\* /SearchJobs/ is found in the URL, whatever the case.
_is_avature_url(url) ==
    \/ Contains(Lower(url), DotAvatureNet)
    \/ Contains(Lower(url), <<"/", "careers">>)
    \/ Contains(Lower(url), JobDetailMark)
    \/ Contains(Lower(url), <<"/", "SearchJobs", "/">>)

\* _is_job_detail_url: /JobDetail/ or /jobs/<digits> is found in the URL (the
\* patterns /job/<name> and jobId=<digits> need text no URL here contains).
_is_job_detail_url(url) ==
    \/ Contains(Lower(url), JobDetailMark)
    \/ \E d \in {"0", "1", "2", "3", "4", "5", "6", "7", "8", "9"} :
          Contains(Lower(url), <<"/", "jobs", "/", d>>)

RECURSIVE _validate_urls(_)
\* _validate_urls: the entries whose URL passes the three tests, in order.
_validate_urls(entries) ==
    IF entries = <<>> THEN <<>>
    ELSE LET url == Head(entries).url
         IN  IF _is_valid_url(url) /\ _is_avature_url(url) /\ _is_job_detail_url(url)
             THEN <<Head(entries)>> \o _validate_urls(Tail(entries))
             ELSE _validate_urls(Tail(entries))

\* An entry whose metadata takes the retry count from retry_metadata.retry_attempt.
EntryByRetryAttempt(failure, i) ==
    [url |-> failure.url.v,
     company |-> PyOpt(failure.company),
     source |-> "retry_file",
     metadata |-> [original_error |-> PyOpt(failure.error_type),
                   retry_count |-> IF "retry_metadata" \in DOMAIN failure
                                   THEN failure.retry_metadata.retry_attempt.v ELSE 1,
                   retry_attempt |-> IF "retry_metadata" \in DOMAIN failure
                                     THEN failure.retry_metadata.retry_attempt.v ELSE 1,
                   max_retries |-> IF "retry_metadata" \in DOMAIN failure
                                   THEN failure.retry_metadata.max_retries.v ELSE 5,
                   index |-> i - 1]]

\* The entry _process_retry_file builds for item i (counted from 1) of the file.
RetryEntry(failure, i) ==
    [url |-> failure.url.v,
     company |-> PyOpt(failure.company),
     source |-> "retry_file",
     metadata |-> [original_error |-> PyOpt(failure.error_type),
                   retry_count |-> failure.retry_count.v,
                   retry_attempt |-> IF "retry_metadata" \in DOMAIN failure
                                     THEN failure.retry_metadata.retry_attempt.v ELSE 1,
                   max_retries |-> IF "retry_metadata" \in DOMAIN failure
                                   THEN failure.retry_metadata.max_retries.v ELSE 5,
                   index |-> i - 1]]

RECURSIVE RetryEntries(_, _)
\* _process_retry_file: the loop over data['failures'] from item i on; an item
\* without a URL is skipped.
RetryEntries(items, i) ==
    IF i > Len(items) THEN <<>>
    ELSE IF items[i].url.j = "null" \/ items[i].url.v = <<>>
    THEN RetryEntries(items, i + 1)
    ELSE <<RetryEntry(items[i], i)>> \o RetryEntries(items, i + 1)

\* _process_retry_file
_process_retry_file(data) == RetryEntries(data.failures, 1)

\* _process_json_file on a file whose text json.dump wrote from a dict: the
\* text starts with '{', and it holds '"failures"' when the dict has that key.
_process_json_file(file) ==
    IF "failures" \in DOMAIN file.text THEN _process_retry_file(file.text) ELSE <<>>

\* URLProcessor.process_input_file without a company filter.
process_input_file(file) ==
    IF file.suffix \in {"jsonl", "json"}
    THEN _validate_urls(_process_json_file(file))
    ELSE <<>>

\* The URL processor is given one of the files the retry manager wrote.
ReadRetryFile ==
    /\ q_pc \in {"processed", "read"}
    /\ \E i \in DOMAIN q_files :
         /\ q_read' = i
         /\ q_entries' = <<process_input_file(q_files[i])>>
    /\ q_pc' = "read"
    /\ UNCHANGED <<q_failures, q_stats, q_files, q_round>>
    /\ UNCHANGED <<jvars, uvars, dvars, fvars, mvars, xvars, tvars>>

NextRetry == ProcessFailures \/ ReadRetryFile

\* A run has ended with some failures, which are given to process_failures.
QInit ==
    /\ q_pc = "start"
    /\ q_failures \in SeqsUpTo(FailureChoices, MaxLen)
    /\ q_stats = <<>> /\ q_files = <<>> /\ q_read = 0 /\ q_entries = <<>>
    /\ q_round = 1

\* ------------------------------- extract_job_details.main: run after run

MaxRounds == 7

\* _extract_company_from_url: the label before 'avature' in the host name,
\* else the first label.
_extract_company_from_url(url) ==
    LET labels == SelectSeq(netloc(url), LAMBDA t : t # ".")
        k == CHOOSE n \in 0..Len(labels) :
                /\ n > 0 => labels[n] = "avature"
                /\ \A j \in 1..Len(labels) : labels[j] = "avature" => n # 0 /\ n <= j
    IN  IF labels = <<>> THEN "unknown"
        ELSE IF k > 1 THEN labels[k - 1]
        ELSE labels[1]

\* The requests of a run that end in a failure that can be retried and is not
\* a rate limit: a timeout, a refused connection, a 500 or a 503.
FailingResponses ==
    {r \in DetailResponses :
        \/ r.kind \in {"timeout", "connection_error"}
        \/ r.kind = "response" /\ r.status \in {500, 503}}

\* The failures of the first run explored.
FirstRunFailures ==
    {<<FailureOf(J1, <<"acme">>, "timeout", <<>>, 0)>>,
     <<FailureOf(JCustom, <<>>, "server_error", <<503>>, 0)>>,
     <<FailureOf(JOld, <<"initech">>, "connection_error", <<>>, 0),
       FailureOf(J1, <<"initech">>, "timeout", <<>>, 0)>>}

\* main, run with a file the last run left as its input: the URLs of the
\* entries go to extract_from_urls with the company of the first entry, every
\* URL fails again, and the failures are what process_failures is given next.
RunAgain ==
    /\ q_pc = "read"
    /\ q_round < MaxRounds
    /\ q_entries[1] # <<>>
    /\ LET entries == q_entries[1]
           job_urls == [i \in DOMAIN entries |-> entries[i].url]
           company_name ==
               IF entries[1].company # <<>> /\ entries[1].company # <<"">>
               THEN entries[1].company
               ELSE <<_extract_company_from_url(job_urls[1])>>
       IN  \E resps \in [DOMAIN entries -> FailingResponses] :
              q_failures' =
                  [i \in DOMAIN entries |->
                      _fetch_job_detail(job_urls[i], resps[i])
                      @@ [company |-> company_name]]
    /\ q_pc' = "start"
    /\ q_round' = q_round + 1
    /\ q_stats' = <<>> /\ q_files' = <<>> /\ q_read' = 0 /\ q_entries' = <<>>
    /\ UNCHANGED <<jvars, uvars, dvars, fvars, mvars, xvars, tvars>>

NextRounds == ProcessFailures \/ ReadRetryFile \/ RunAgain

\* A first run has ended with failures that can be retried.
RoundsInit ==
    /\ q_pc = "start"
    /\ q_failures \in FirstRunFailures
    /\ q_stats = <<>> /\ q_files = <<>> /\ q_read = 0 /\ q_entries = <<>>
    /\ q_round = 1

\* Nothing is given to the retry manager, nothing to the worker pool.
QIdle ==
    /\ q_pc = "idle" /\ q_failures = <<>> /\ q_stats = <<>> /\ q_files = <<>>
    /\ q_read = 0 /\ q_entries = <<>> /\ q_round = 0

XIdle ==
    /\ x_pc = "idle" /\ max_workers = 5 /\ x_prior = <<>> /\ x_urls = <<>> /\ futures = <<>> /\ collected = <<>>
    /\ jobs = <<>> /\ x_failures = <<>> /\ retryable_failures = <<>>
    /\ permanent_failures = <<>> /\ jobs_extracted = 0 /\ x_raised = FALSE

\* ------------------- AvatureJobDetailsExtractor.extract_from_urls: the pool

\* The fields of the extractor that only a call of
\* _fetch_job_detail_with_retry outside a pool uses.
fsingle == <<f_pc, job_url, attempt, retry_wait, result, built, returned, tries>>

\* The job_urls lists of the calls explored.
UrlLists ==
    {<<>>, <<J1>>, <<J1, J2Q>>, <<J1, J1>>, <<JOld, J1, J2Q>>}

\* What one GET of a job page does in the calls explored.
PoolResponses ==
    {r \in DetailResponses :
        \/ r.kind \in {"timeout", "exception"}
        \/ r.kind = "response" /\ r.status \in {404, 406}
        \/ r.kind = "response" /\ r.status = 200 /\ r.body = "job"}

Response406 == [kind |-> "response", status |-> 406, body |-> "job"]

\* A future as executor.submit leaves it.
Submitted == [state |-> "pending", attempt |-> 0, seen |-> 0, result |-> <<>>]

\* The futures a worker thread is busy with.
Busy == {i \in DOMAIN futures : futures[i].state \in {"running", "counting"}}

\* A worker can take up future i: it runs already, or it is the first of the
\* queue and one of the max_workers threads is free.
CanRun(i) ==
    \/ futures[i].state = "running"
    \/ /\ futures[i].state = "pending"
       /\ Cardinality(Busy) < max_workers
       /\ \A j \in 1..(i - 1) : futures[j].state # "pending"

\* The end of one iteration of the retry loop in the worker of future i.
AfterFetch(i, fetched) ==
    IF RetriesAgain(fetched, futures[i].attempt, max_retries)
    THEN [futures EXCEPT ![i].state = "running", ![i].attempt = @ + 1]
    ELSE [futures EXCEPT ![i].state = "done", ![i].result = <<fetched>>]

\* for i, url in enumerate(job_urls): executor.submit(...)
Submit ==
    /\ x_pc = "submit"
    /\ futures' = Append(futures, Submitted)
    /\ x_pc' = IF Len(futures) + 1 = Len(x_urls) THEN "collect" ELSE "submit"
    /\ UNCHANGED <<max_workers, x_prior, x_urls, collected, jobs, x_failures,
                   retryable_failures, permanent_failures, jobs_extracted, x_raised>>
    /\ UNCHANGED <<jvars, uvars, dvars, fvars, mvars, qvars, tvars>>

\* A worker makes one request for the URL of future i.  On a 406 it has read
\* self.recent_406_count and not yet written it back.
WorkerAttempt(i) ==
    /\ x_pc \in {"submit", "collect"}
    /\ CanRun(i)
    /\ \E resp \in PoolResponses :
          IF resp = Response406
          THEN futures' = [futures EXCEPT ![i].state = "counting",
                                          ![i].seen = recent_406_count]
          ELSE futures' = AfterFetch(i, _fetch_job_detail(x_urls[i], resp))
    /\ UNCHANGED <<x_pc, max_workers, x_prior, x_urls, collected, jobs, x_failures,
                   retryable_failures, permanent_failures, jobs_extracted, x_raised>>
    /\ UNCHANGED <<jvars, uvars, dvars, fvars, mvars, qvars, tvars>>

\* The worker of future i ends self.recent_406_count += 1 with the value it
\* read, adjusts the adaptive delay and returns the rate_limited failure.
WorkerCount406(i) ==
    /\ x_pc \in {"submit", "collect"}
    /\ futures[i].state = "counting"
    /\ recent_406_count' = futures[i].seen + 1
    /\ adaptive_delay' = _adjust_adaptive_delay(futures[i].seen + 1, adaptive_delay)
    /\ futures' = AfterFetch(i, _fetch_job_detail(x_urls[i], Response406))
    /\ UNCHANGED <<x_pc, max_workers, x_prior, x_urls, collected, jobs, x_failures,
                   retryable_failures, permanent_failures, jobs_extracted, x_raised>>
    /\ UNCHANGED <<max_retries, fsingle, jvars, uvars, dvars, mvars, qvars, tvars>>

\* An exception leaves _fetch_job_detail_with_retry in the worker of future i:
\* future.result() will raise it.
WorkerRaises(i) ==
    /\ x_pc \in {"submit", "collect"}
    /\ CanRun(i)
    /\ futures' = [futures EXCEPT ![i].state = "raised"]
    /\ UNCHANGED <<x_pc, max_workers, x_prior, x_urls, collected, jobs, x_failures,
                   retryable_failures, permanent_failures, jobs_extracted, x_raised>>
    /\ UNCHANGED <<jvars, uvars, dvars, fvars, mvars, qvars, tvars>>

\* _reset_adaptive_delay_if_needed: the count and the delay after it.
_reset_adaptive_delay_if_needed(extracted, count, current) ==
    IF extracted > 0 /\ extracted % 100 = 0 /\ count > 0
    THEN [count |-> Max(0, count - 2),
          delay |-> _adjust_adaptive_delay(Max(0, count - 2), current)]
    ELSE [count |-> count, delay |-> current]

\* A collection loop without the except branch: the exception leaves the loop.
RaiseFromLoop(url) == [left |-> TRUE, failure |-> <<>>]

\* except Exception: one processing_error failure for the URL of the future.
ExceptBranch(url) ==
    [left |-> FALSE,
     failure |-> <<FailureOf(url, <<"unknown">>, "processing_error", <<>>, 0)>>]

\* as_completed yields future i and the loop body handles its result.
Collect(i) ==
    /\ x_pc = "collect"
    /\ futures[i].state \in {"done", "raised"}
    /\ \A k \in DOMAIN collected : collected[k] # i
    /\ collected' = Append(collected, i)
    /\ IF futures[i].state = "raised"
       THEN LET handled == ExceptBranch(x_urls[i])
            IN  /\ x_failures' = x_failures \o handled.failure
                /\ x_raised' = handled.left
                /\ x_pc' = IF handled.left THEN "raised" ELSE x_pc
                /\ UNCHANGED <<jobs, retryable_failures, permanent_failures,
                               jobs_extracted, recent_406_count, adaptive_delay>>
       ELSE LET got == futures[i].result[1]
            IN  IF got.type = "Job"
                THEN LET reset == _reset_adaptive_delay_if_needed(
                                     jobs_extracted + 1, recent_406_count, adaptive_delay)
                     IN  /\ jobs' = Append(jobs, got)
                         /\ jobs_extracted' = jobs_extracted + 1
                         /\ recent_406_count' = reset.count
                         /\ adaptive_delay' = reset.delay
                         /\ UNCHANGED <<x_pc, x_failures, retryable_failures,
                                        permanent_failures, x_raised>>
                ELSE /\ x_failures' = Append(x_failures, got)
                     /\ retryable_failures' =
                           IF got.is_retryable THEN Append(retryable_failures, got)
                           ELSE retryable_failures
                     /\ permanent_failures' =
                           IF got.is_retryable THEN permanent_failures
                           ELSE Append(permanent_failures, got)
                     /\ UNCHANGED <<x_pc, jobs, jobs_extracted, recent_406_count,
                                    adaptive_delay, x_raised>>
    /\ UNCHANGED <<max_workers, x_prior, x_urls, futures>>
    /\ UNCHANGED <<max_retries, fsingle, jvars, uvars, dvars, mvars, qvars, tvars>>

\* return jobs, self.failures
ReturnFromPool ==
    /\ x_pc = "collect"
    /\ Len(collected) = Len(x_urls)
    /\ x_pc' = "returned"
    /\ UNCHANGED <<max_workers, x_prior, x_urls, futures, collected, jobs, x_failures,
                   retryable_failures, permanent_failures, jobs_extracted, x_raised>>
    /\ UNCHANGED <<jvars, uvars, dvars, fvars, mvars, qvars, tvars>>

NextPool ==
    \/ Submit
    \/ \E i \in DOMAIN futures : WorkerAttempt(i)
    \/ \E i \in DOMAIN futures : WorkerCount406(i)
    \/ \E i \in DOMAIN futures : WorkerRaises(i)
    \/ \E i \in DOMAIN futures : Collect(i)
    \/ ReturnFromPool

\* An extractor, new or used before, is given a list of URLs.
XInit ==
    /\ max_retries \in {0, 1}
    /\ recent_406_count \in {0, 3}
    /\ adaptive_delay = _adjust_adaptive_delay(recent_406_count, RequestDelayMs)
    /\ f_pc = "idle" /\ job_url = <<>> /\ attempt = 0 /\ retry_wait = 0
    /\ result = <<>> /\ built = <<>> /\ returned = <<>> /\ tries = <<>>
    /\ max_workers \in {1, 2}
    /\ x_urls \in UrlLists
    /\ x_pc = IF x_urls = <<>> THEN "collect" ELSE "submit"
    /\ futures = <<>> /\ collected = <<>> /\ jobs = <<>>
    /\ x_prior \in {<<>>, <<FailureOf(J1, <<"acme">>, "timeout", <<>>, 0)>>}
    /\ x_failures = x_prior
    /\ retryable_failures = x_prior
    /\ permanent_failures = <<>>
    /\ jobs_extracted \in {0, 99}
    /\ x_raised = FALSE

\* ----------------- AvatureJobDetailsExtractor._rate_limited_request: threads

\* The worker threads of the pool.
Threads == {"w1", "w2"}

\* What the clock advances by, and how often it advances in a run explored.
ClockStep == RequestDelayMs
MaxClock == 4

\* total_delay = self.request_delay + self.adaptive_delay
total_delay == RequestDelayMs + adaptive_delay

\* No thread is in _rate_limited_request.
TIdle ==
    /\ clock = 0 /\ last_request_time = 0
    /\ t_pc = [t \in Threads |-> "out"]
    /\ current_time = [t \in Threads |-> 0]
    /\ wake = [t \in Threads |-> 0]
    /\ requests = <<>>

\* A new extractor (last_request_time = 0) at some time of day; every thread
\* is about to call _rate_limited_request.
TInit ==
    /\ clock = ClockStep /\ last_request_time = 0
    /\ t_pc = [t \in Threads |-> "enter"]
    /\ current_time = [t \in Threads |-> 0]
    /\ wake = [t \in Threads |-> 0]
    /\ requests = <<>>

\* Time passes.
Tick ==
    /\ clock < ClockStep * (1 + MaxClock)
    /\ clock' = clock + ClockStep
    /\ UNCHANGED <<last_request_time, t_pc, current_time, wake, requests>>
    /\ UNCHANGED <<jvars, uvars, dvars, fvars, mvars, qvars, xvars>>

\* current_time = time.time()
ReadClock(t) ==
    /\ t_pc[t] = "enter"
    /\ current_time' = [current_time EXCEPT ![t] = clock]
    /\ t_pc' = [t_pc EXCEPT ![t] = "test"]
    /\ UNCHANGED <<clock, last_request_time, wake, requests>>
    /\ UNCHANGED <<jvars, uvars, dvars, fvars, mvars, qvars, xvars>>

\* if self.last_request_time > 0
TestLast(t) ==
    /\ t_pc[t] = "test"
    /\ t_pc' = [t_pc EXCEPT ![t] = IF last_request_time > 0 THEN "since" ELSE "stamp"]
    /\ UNCHANGED <<clock, last_request_time, current_time, wake, requests>>
    /\ UNCHANGED <<jvars, uvars, dvars, fvars, mvars, qvars, xvars>>

\* time_since_last = current_time - self.last_request_time, and the sleep of
\* total_delay - time_since_last when that is positive.
SinceLast(t) ==
    /\ t_pc[t] = "since"
    /\ LET time_since_last == current_time[t] - last_request_time
       IN  IF time_since_last < total_delay
           THEN /\ wake' = [wake EXCEPT ![t] = clock + (total_delay - time_since_last)]
                /\ t_pc' = [t_pc EXCEPT ![t] = "sleep"]
           ELSE /\ t_pc' = [t_pc EXCEPT ![t] = "stamp"]
                /\ UNCHANGED wake
    /\ UNCHANGED <<clock, last_request_time, current_time, requests>>
    /\ UNCHANGED <<jvars, uvars, dvars, fvars, mvars, qvars, xvars>>

\* time.sleep(sleep_time) returns.
Wake(t) ==
    /\ t_pc[t] = "sleep"
    /\ clock >= wake[t]
    /\ t_pc' = [t_pc EXCEPT ![t] = "stamp"]
    /\ UNCHANGED <<clock, last_request_time, current_time, wake, requests>>
    /\ UNCHANGED <<jvars, uvars, dvars, fvars, mvars, qvars, xvars>>

\* self.last_request_time = time.time()
Stamp(t) ==
    /\ t_pc[t] = "stamp"
    /\ last_request_time' = clock
    /\ t_pc' = [t_pc EXCEPT ![t] = "get"]
    /\ UNCHANGED <<clock, current_time, wake, requests>>
    /\ UNCHANGED <<jvars, uvars, dvars, fvars, mvars, qvars, xvars>>

\* return self.session.get(job_url, timeout=timeout): the request is issued,
\* and the thread will come back with its next URL.
Get(t) ==
    /\ t_pc[t] = "get"
    /\ requests' = Append(requests, clock)
    /\ t_pc' = [t_pc EXCEPT ![t] = "enter"]
    /\ UNCHANGED <<clock, last_request_time, current_time, wake>>
    /\ UNCHANGED <<jvars, uvars, dvars, fvars, mvars, qvars, xvars>>

NextRate ==
    \/ Tick
    \/ \E t \in Threads : ReadClock(t)
    \/ \E t \in Threads : TestLast(t)
    \/ \E t \in Threads : SinceLast(t)
    \/ \E t \in Threads : Wake(t)
    \/ \E t \in Threads : Stamp(t)
    \/ \E t \in Threads : Get(t)

\* ---------------------------------------------------------- specifications

InitFailure == JInit /\ UIdle /\ DIdle /\ DRest /\ FIdle /\ MIdle /\ QIdle /\ XIdle /\ TIdle

SpecFailure == InitFailure /\ [][ConstructFailure]_vars

NextDedup == DedupOnce \/ DedupTwice

InitDedup == JInit /\ UInit /\ DIdle /\ DRest /\ FIdle /\ MIdle /\ QIdle /\ XIdle /\ TIdle

SpecDedup == InitDedup /\ [][NextDedup]_vars

\* URL discovery for one company.
Init == JInit /\ UIdle /\ DInit /\ FIdle /\ MIdle /\ QIdle /\ XIdle /\ TIdle

Spec == Init /\ [][NextDiscovery]_vars

\* Base-URL resolution, followed by the discovery it allows.
InitResolve == JInit /\ UIdle /\ RInit /\ FIdle /\ MIdle /\ QIdle /\ XIdle /\ TIdle

SpecResolve == InitResolve /\ [][NextDiscovery]_vars

\* Most pages of a listing in the runs checked for termination.
LivePages == 2

\* One company whose base URL answers; a few sitemaps, any short listing.
InitTerminates ==
    /\ JInit /\ UIdle /\ FIdle /\ MIdle /\ QIdle /\ XIdle /\ TIdle
    /\ original_base_url = Good
    /\ redirect = Response(original_base_url, 200)
    /\ site_map \in {<<USearch>>, <<U1>>, <<U1, U2>>}
    /\ listing \in SeqsUpTo({<<>>, <<U1>>, <<U1H, U2>>, <<U3>>}, LivePages)
    /\ DFresh

\* Discovery in which every request is eventually answered or gives up: the
\* requests carry timeouts and each wait is a finite sleep.
SpecTerminates ==
    InitTerminates /\ [][NextDiscovery]_vars /\ WF_vars(NextDiscovery)

\* main over the companies of a URL file.
InitMain == JInit /\ UIdle /\ FIdle /\ MInit /\ QIdle /\ XIdle /\ TIdle

SpecMain == InitMain /\ [][NextMain]_vars

\* Failures through the retry manager, its files through the URL processor.
InitRetry == JInit /\ UIdle /\ DIdle /\ DRest /\ FIdle /\ MIdle /\ QInit /\ XIdle /\ TIdle

SpecRetry == InitRetry /\ [][NextRetry]_vars

\* Run after run, each on a file the run before has written.
InitRounds == JInit /\ UIdle /\ DIdle /\ DRest /\ FIdle /\ MIdle /\ RoundsInit /\ XIdle /\ TIdle

SpecRounds == InitRounds /\ [][NextRounds]_vars

\* The worker threads of one extractor in _rate_limited_request.
InitRate == JInit /\ UIdle /\ DIdle /\ DRest /\ FIdle /\ MIdle /\ QIdle /\ XIdle /\ TInit

SpecRate == InitRate /\ [][NextRate]_vars

\* One call of extract_from_urls.
InitPool == JInit /\ UIdle /\ DIdle /\ DRest /\ MIdle /\ QIdle /\ XInit /\ TIdle

SpecPool == InitPool /\ [][NextPool]_vars

\* One URL through _fetch_job_detail_with_retry.
InitFetch == JInit /\ UIdle /\ DIdle /\ DRest /\ FInit /\ MIdle /\ QIdle /\ XIdle /\ TIdle

SpecFetch == InitFetch /\ [][Attempt]_vars

\* ------------------------------------------------------------------ claims

\* No two URLs of the list have the same job_id.
NoDuplicateJobIds(list) ==
    \A i, j \in DOMAIN list :
        _extract_job_id(list[i]) = _extract_job_id(list[j]) => i = j

\* C1: a JobFailure, however constructed, is retryable exactly when its
\* error_type is one of timeout, connection_error, rate_limited, server_error,
\* temporary_error or its http_status is one of 406, 429, 500, 502, 503, 504;
\* the is_retryable argument passed plays no part.
C1_RetryableByTypeOrStatus ==
    jf # <<>> =>
        (jf[1].is_retryable <=>
            \/ jf[1].error_type \in {"timeout", "connection_error", "rate_limited",
                                     "server_error", "temporary_error"}
            \/ jf[1].http_status \in {<<406>>, <<429>>, <<500>>, <<502>>, <<503>>, <<504>>})

\* An http_error with status 406, constructed with is_retryable=False, is retryable.
C1_Witness ==
    /\ jf # <<>>
    /\ jf[1].error_type = "http_error"
    /\ jf[1].http_status = <<406>>
    /\ jf_passed = FALSE
    /\ jf[1].is_retryable

\* C2: when the request for the base URL is answered, with or without a
\* redirect, the scraper never gets a base_url whose host holds 'avature.net'
\* only as a substring (neither 'avature.net' nor ending in '.avature.net'):
\* the resolution raises external_redirect instead.
C2_NeverAcceptsSubstringHost ==
    (base_url # <<>> /\ redirect.kind = "response") => ~ SubstringOnly(base_url[1])

\* The job links of listing page k.
RECURSIVE JobLinks(_)
JobLinks(articles) ==
    IF articles = <<>> THEN <<>>
    ELSE IF HasJobLink(Head(articles))
         THEN <<Head(articles)>> \o JobLinks(Tail(articles))
         ELSE JobLinks(Tail(articles))

\* K: the number of listing pages before the first empty one.
RECURSIVE NonEmptyPagesFrom(_)
NonEmptyPagesFrom(k) ==
    IF PageAt(k) = <<>> THEN 0 ELSE 1 + NonEmptyPagesFrom(k + 1)

LeadingPages == NonEmptyPagesFrom(1)

\* The job IDs on the listing pages before the first empty one.
ListingJobIds ==
    UNION {JobIds(JobLinks(PageAt(k))) : k \in 1..LeadingPages}

\* Every listing request of the pagination was answered 200 or 202: the loop
\* ended on a page it read, and no request was repeated (each request moves
\* to the next page, ends the loop, or is a 406/429 that is repeated).
AllPagesAnswered ==
    /\ pc = "done"
    /\ stop_reason \in {"empty_page", "no_new_urls"}
    /\ fetches = page_num

\* C3: when gap detection found a job ID that is not in the sitemap, the list
\* returned holds exactly one URL for every job ID of the sitemap and of the
\* listing pages before the first empty page.
C3_UnionOfBothSources ==
    (AllPagesAnswered /\ sample_urls # <<>>) =>
        /\ JobIds(all_urls[1]) = JobIds(sitemap_urls) \cup ListingJobIds
        /\ NoDuplicateJobIds(all_urls[1])

\* The sampled listing pages (those _check_html_sample read) hold a job ID
\* that is not in the sitemap.
SampledUnseenId ==
    \E k \in 1..sample_read :
        JobIds(JobLinks(PageAt(k))) \ JobIds(JobDetailOnly(site_map)) # {}

\* _check_html_sample has returned and its locals are still there.
SampleEnded == sample_stop # "none"

\* C4: if the sampled pages hold a job ID that is not in the sitemap, the
\* engine goes on to the full pagination, and the run then ends as
\* sitemap_plus_html with a list that holds every job ID of the sitemap, no
\* job ID twice, and for a job ID of the sitemap only the sitemap's URL.
C4_GapGivesSitemapPlusHtml ==
    /\ (SampleEnded /\ SampledUnseenId) =>
          pc = "start_pagination" /\ sample_urls # <<>>
    /\ (pc = "done" /\ sample_urls # <<>>) =>
          /\ strategy_used = "sitemap_plus_html"
          /\ JobIds(JobDetailOnly(site_map)) \subseteq JobIds(all_urls[1])
          /\ NoDuplicateJobIds(all_urls[1])
          /\ \A i \in DOMAIN all_urls[1] :
                _extract_job_id(all_urls[1][i]) \in JobIds(JobDetailOnly(site_map))
                    => \E j \in DOMAIN site_map : 
                          /\ site_map[j] = all_urls[1][i]
                          /\ \A h \in 1..(j - 1) :
                                _extract_job_id(site_map[h]) # _extract_job_id(site_map[j])

\* A run that ended as sitemap_plus_html where the sitemap itself lists a job
\* ID twice and the listing holds another URL for a job ID of the sitemap.
C4_Witness ==
    /\ pc = "done"
    /\ sample_urls # <<>>
    /\ strategy_used = "sitemap_plus_html"
    /\ ~ NoDuplicateJobIds(sitemap_urls)
    /\ Len(all_urls[1]) > Cardinality(JobIds(sitemap_urls))
    /\ \E k \in 1..Len(listing) : \E i \in DOMAIN listing[k] :
          /\ listing[k][i] \notin Range(sitemap_urls)
          /\ _extract_job_id(listing[k][i]) \in JobIds(sitemap_urls)

\* C5: if the sitemap gave a job URL and every job ID on the sampled pages is
\* in the sitemap, the run ends as sitemap_only without a request of the full
\* pagination and returns exactly the sitemap's job URLs.
C5_NoGapGivesSitemapOnly ==
    (SampleEnded /\ ~ SampledUnseenId) =>
        /\ pc = "done"
        /\ strategy_used = "sitemap_only"
        /\ fetches = 0
        /\ all_urls = <<JobDetailOnly(site_map)>>

\* Three pages were sampled, all of their job IDs in the sitemap.
C5_Witness ==
    /\ pc = "done"
    /\ strategy_used = "sitemap_only"
    /\ sample_read = SamplePages
    /\ ListingJobIds # {}
    /\ Len(all_urls[1]) >= 2

\* The job IDs the pagination starts with: those of the sitemap.
KnownAtStart == JobIds(sitemap_urls)

\* Every page before the first empty one holds a job ID that is neither in
\* the sitemap nor on an earlier page.
EachPageYieldsNew ==
    \A k \in 1..LeadingPages :
        JobIds(JobLinks(PageAt(k)))
            \ (KnownAtStart \cup UNION {JobIds(JobLinks(PageAt(h))) : h \in 1..(k - 1)})
          # {}

\* Every article of the listing holds a job link.
EveryArticleLinksAJob ==
    \A k \in 1..Len(listing) : \A i \in DOMAIN listing[k] : HasJobLink(listing[k][i])

\* C6 as claimed: for a listing of K non-empty pages followed by an empty one,
\* all requests answered, the pagination issues exactly K+1 listing requests,
\* the last at offset K * page_size.
C6_ExactlyKPlusOneRequests ==
    (AllPagesAnswered /\ EveryArticleLinksAJob) =>
        fetches = LeadingPages + 1 /\ offset = LeadingPages * page_size

\* C6 as amended: the same, for a listing each of whose K non-empty pages
\* holds a job ID not seen before.
C6_KPlusOneWhenEachPageYieldsNew ==
    (AllPagesAnswered /\ EachPageYieldsNew) =>
        /\ fetches = LeadingPages + 1
        /\ offset = LeadingPages * page_size
        /\ stop_reason = "empty_page"

\* Two pages of different sizes, each with a new job ID, then the empty page.
C6_Witness ==
    /\ AllPagesAnswered
    /\ EachPageYieldsNew
    /\ LeadingPages = 2
    /\ Len(PageAt(2)) < page_size
    /\ fetches = 3

\* C7: while a listing page keeps answering 406 or 429, the wait before retry
\* 1, 2, 3, 4, 5 is 60, 120, 240, 300, 300 seconds; when the fifth retry is
\* rejected as well the pagination ends without raising, and the URLs it had
\* collected are returned.
C7_BackoffThenHalt ==
    /\ (pc = "paginate" /\ retry_attempt >= 1) =>
          /\ retry_attempt <= 5
          /\ delay = <<60, 120, 240, 300, 300>>[retry_attempt]
    /\ stop_reason = "max_retries" =>
          /\ pc = "done"
          /\ retry_attempt = 6
          /\ delay = 300
          /\ all_urls # <<>>
          /\ Range(urls) \subseteq Range(all_urls[1])
    /\ (pc = "done" /\ retry_attempt > 5) => stop_reason = "max_retries"

\* The second page was rejected six times after the first gave URLs.
C7_Witness ==
    /\ stop_reason = "max_retries"
    /\ page_num = 2
    /\ urls # <<>>
    /\ all_urls = <<urls>>

\* C8: the list scrape_all_job_urls returns never holds two URLs with the
\* same job_id, whatever the terminal state.
C8_NoDuplicateJobIdsReturned ==
    pc = "done" => NoDuplicateJobIds(all_urls[1])

\* The indices of list whose job_id no earlier element has.
FirstOccurrences(list) ==
    {i \in DOMAIN list :
        \A j \in 1..(i - 1) : _extract_job_id(list[j]) # _extract_job_id(list[i])}

\* kept is list restricted to the first URL of each job_id, in list's order.
KeepsFirstOfEach(list, kept) ==
    LET firsts == FirstOccurrences(list)
    IN  /\ Len(kept) = Cardinality(firsts)
        /\ \A i \in firsts :
              kept[Cardinality({j \in firsts : j <= i})] = list[i]

\* C9: _deduplicate_urls applied to its own result changes nothing, and its
\* result keeps, in the list's order, the first URL of each job_id.
C9_DedupIdempotentKeepsFirst ==
    /\ dd_once # <<>> => KeepsFirstOfEach(dd_in, dd_once[1])
    /\ dd_twice # <<>> => dd_twice[1] = dd_once[1]

\* A list with a repeated job_id under two different URLs was deduplicated twice.
C9_Witness ==
    /\ dd_twice # <<>>
    /\ Len(dd_once[1]) = 2
    /\ Len(dd_in) = 3
    /\ dd_in[1] # dd_in[3]
    /\ _extract_job_id(dd_in[1]) = _extract_job_id(dd_in[3])


\* C10: one URL costs at most max_retries + 1 calls of _fetch_job_detail:
\* exactly one when the first outcome is a Job or a failure of a permanent
\* class, and exactly max_retries + 1 when every outcome is a transient failure.
C10_AtMostMaxRetriesPlusOne ==
    /\ Len(tries) <= max_retries + 1
    /\ (f_pc = "returned" /\ ~ tries[1]) => Len(tries) = 1
    /\ (f_pc = "returned" /\ \A i \in DOMAIN tries : tries[i]) =>
            Len(tries) = max_retries + 1

\* A URL fetched with max_retries = 2 has returned after three attempts, each
\* of which failed transiently, the last with a server error.
C10_Witness ==
    /\ f_pc = "returned"
    /\ max_retries = 2
    /\ Len(tries) = 3
    /\ \A i \in DOMAIN tries : tries[i]
    /\ returned[1].error_type = "server_error"


\* C11: when every one of the max_retries + 1 attempts ended in a transient
\* failure, the value returned is a JobFailure of error_type retry_exhausted.
C11_ExhaustionGivesRetryExhausted ==
    (/\ f_pc = "returned"
     /\ Len(tries) = max_retries + 1
     /\ \A i \in DOMAIN tries : tries[i]) =>
        /\ returned[1].type = "JobFailure"
        /\ returned[1].error_type = "retry_exhausted"

\* C17: a JobFailure keeps the fields it was constructed with: the failure
\* the retry loop holds is, field for field, the one _fetch_job_detail built.
C17_FailureNeverMutated ==
    (result # <<>> /\ result[1].type = "JobFailure") => result[1] = built[1]

\* C18: the job_id on the record the detail fetcher returns is the job_id the
\* discovery engine extracts from the same URL, query string or not.
C18_SameJobIdWithQuery ==
    returned # <<>> => returned[1].job_id = _extract_job_id(job_url)

\* C20: every answer 406 or 429 to the detail fetcher adds exactly 1 to
\* recent_406_count and sets adaptive_delay by the adjustment formula (here in
\* milliseconds) for the new count.
C20_RateLimitAnswerCounts ==
    [][(/\ Len(tries') = Len(tries) + 1
        /\ built'[1].type = "JobFailure"
        /\ built'[1].http_status \in {<<406>>, <<429>>}) =>
            /\ recent_406_count' = recent_406_count + 1
            /\ adaptive_delay' =
                 Min(RequestDelayMs
                        + (RequestDelayMs * Min(recent_406_count', 8)) \div 2,
                     MaxAdaptiveDelayMs)]_vars


\* C19: scrape_all_job_urls returns whatever the server answers, and when it
\* has returned strategy_used is sitemap_only, html_only or sitemap_plus_html,
\* html_only exactly when the sitemap gave no job URL.
C19_TerminatesWithAStrategy ==
    /\ <>(pc = "done")
    /\ [](pc = "done" =>
            /\ all_urls # <<>>
            /\ strategy_used \in {"sitemap_only", "html_only", "sitemap_plus_html"}
            /\ strategy_used = "html_only" <=> sitemap_urls = <<>>)

\* A run without sitemap URLs has returned as html_only after a page was
\* rejected and then read.
C19_Witness ==
    /\ pc = "done"
    /\ strategy_used = "html_only"
    /\ sitemap_urls = <<>>
    /\ stop_reason = "empty_page"
    /\ fetches > page_num
    /\ urls # <<>>


\* The server behind the base URL sends every visitor to another host.
MovedAway(url) == Server(url).redirect.url = Elsewhere

RECURSIVE UrlsOfLog(_)
\* The URLs of the companies of a log, in the order of the log.
UrlsOfLog(log) ==
    IF log = <<>> THEN <<>> ELSE Head(log).urls \o UrlsOfLog(Tail(log))

C13_RedirectFailureRecorded ==
    \A i \in DOMAIN m_log :
        LET e == m_log[i]
        IN  e.ended = "external_redirect" =>
              /\ \E k \in DOMAIN e.failures : e.failures[k].error_type = "external_redirect"
              /\ stats[e.company_name][1].failures >= 1
              /\ \E f \in DOMAIN e.written :
                    /\ e.written[f].kind = "failure"
                    /\ \E k \in DOMAIN e.written[f].records :
                          e.written[f].records[k].error_type = "external_redirect"


\* The URL is absolute, is the URL of an Avature site (a host under
\* avature.net, or a path with /careers, /JobDetail/ or /SearchJobs/), and is
\* the URL of one job (/JobDetail/... or /jobs/<number>).
AvatureJobDetailURL(url) ==
    /\ url # <<>>
    /\ Head(url) \in {"https://", "http://"}
    /\ \/ Contains(url, <<".", "avature", ".", "net">>)
       \/ \E word \in {"careers", "JobDetail", "SearchJobs"} : Contains(url, <<"/", word>>)
    /\ \/ Contains(url, <<"/", "JobDetail", "/">>)
       \/ \E k \in 1..(Len(url) - 3) :
             /\ SubSeq(url, k, k + 2) = <<"/", "jobs", "/">>
             /\ url[k + 3] \in {"0", "1", "2", "3", "4", "5", "6", "7", "8", "9"}

\* The failures of list whose URL is an Avature job-detail URL, in order.
RECURSIVE WithJobDetailURL(_)
WithJobDetailURL(list) ==
    IF list = <<>> THEN <<>>
    ELSE IF AvatureJobDetailURL(Head(list).url)
    THEN <<Head(list)>> \o WithJobDetailURL(Tail(list))
    ELSE WithJobDetailURL(Tail(list))

\* C14: the URL processor reads a file of the retry manager back as one entry
\* per failure written whose URL is an Avature job-detail URL, in the order
\* written, with the failure's url and company, source retry_file, and the
\* failure's retry_count and error_type in the metadata.
C14_RetryFileRoundTrip ==
    q_pc = "read" =>
        LET wrote == WithJobDetailURL(q_files[q_read].from)
            entries == q_entries[1]
        IN  /\ Len(entries) = Len(wrote)
            /\ \A i \in DOMAIN entries :
                  /\ entries[i].url = wrote[i].url
                  /\ entries[i].company = wrote[i].company
                  /\ entries[i].source = "retry_file"
                  /\ entries[i].metadata.retry_count = wrote[i].retry_count
                  /\ entries[i].metadata.original_error = <<wrote[i].error_type>>

\* A retry queue of three failures, one of them without a job-detail URL and
\* one without a company, was read back as two entries.
C14_Witness ==
    /\ q_pc = "read"
    /\ q_files[q_read].prefix = "retryable"
    /\ Len(q_files[q_read].from) = 3
    /\ Len(q_entries[1]) = 2
    /\ q_entries[1][1].url = JOld
    /\ q_entries[1][1].metadata.retry_count = 1
    /\ q_entries[1][2].url = JCustom
    /\ q_entries[1][2].metadata.original_error = <<"server_error">>

\* C15: process_failures counts every failure in exactly one bucket, writes
\* no failure that is not retryable to a retry queue, and writes no retryable
\* failure with retry_count below max_retry_attempts to the permanent file.
C15_BucketsPartitionFailures ==
    q_stats # <<>> =>
        /\ q_stats[1].retryable + q_stats[1].rate_limited + q_stats[1].permanent
              = q_stats[1].total_failures
        /\ q_stats[1].total_failures = Len(q_failures)
        /\ \A k \in DOMAIN q_files : \A i \in DOMAIN q_files[k].from :
              LET failure == q_files[k].from[i]
                  transient ==
                      \/ failure.error_type \in
                            {"timeout", "connection_error", "rate_limited",
                             "server_error", "temporary_error"}
                      \/ failure.http_status # <<>> /\
                            failure.http_status[1] \in {406, 429, 500, 502, 503, 504}
              IN  /\ q_files[k].prefix \in {"retryable", "rate_limited"} => transient
                  /\ q_files[k].prefix = "permanent_failures" =>
                        ~ (transient /\ failure.retry_count < 5)
        /\ \A i \in DOMAIN q_failures :
              Cardinality({k \in DOMAIN q_files :
                             \E n \in DOMAIN q_files[k].from :
                                q_files[k].from[n] = q_failures[i]}) = 1

\* Three failures went to three different files.
C15_Witness ==
    /\ q_pc = "processed"
    /\ Len(q_failures) = 3
    /\ Len(q_files) = 3
    /\ q_stats[1].retryable = 1 /\ q_stats[1].rate_limited = 1 /\ q_stats[1].permanent = 1


\* The failures this call of extract_from_urls has appended to self.failures.
FailuresOfCall == SubSeq(x_failures, Len(x_prior) + 1, Len(x_failures))

\* How many records of list are about url and satisfy the test.
HowMany(list, url, test(_)) ==
    Cardinality({k \in DOMAIN list : list[k].url = url /\ test(list[k])})

IsProcessingError(r) == r.error_type = "processing_error"
IsParseError(r) == r.error_type = "parse_error"
AnyRecord(r) == TRUE

\* C16: no exception leaves extract_from_urls; when it returns, every
\* submitted URL has its own Job or JobFailure, a URL whose worker raised has
\* exactly one processing_error failure per raise, and a URL whose request
\* raised inside _fetch_job_detail has a parse_error failure.
C16_WorkerExceptionBecomesOneFailure ==
    /\ ~ x_raised
    /\ x_pc # "raised"
    /\ x_pc = "returned" =>
          /\ Len(jobs) + Len(FailuresOfCall) = Len(x_urls)
          /\ \A i \in DOMAIN x_urls :
                LET url == x_urls[i]
                    same == {j \in DOMAIN x_urls : x_urls[j] = url}
                IN  /\ HowMany(jobs, url, AnyRecord)
                          + HowMany(FailuresOfCall, url, AnyRecord)
                       = Cardinality(same)
                    /\ HowMany(FailuresOfCall, url, IsProcessingError)
                       = Cardinality({j \in same : futures[j].state = "raised"})
                    /\ HowMany(FailuresOfCall, url, IsParseError)
                       = Cardinality({j \in same :
                            /\ futures[j].state = "done"
                            /\ futures[j].result[1].type = "JobFailure"
                            /\ futures[j].result[1].error_type = "parse_error"})
                    /\ HowMany(jobs, url, AnyRecord)
                       = Cardinality({j \in same :
                            /\ futures[j].state = "done"
                            /\ futures[j].result[1].type = "Job"})

\* Of three URLs, the worker of the second raised, the request of the third
\* raised inside _fetch_job_detail, and the first gave its job: the call
\* returned one job and two failures.
C16_Witness ==
    /\ x_pc = "returned"
    /\ Len(x_urls) = 3
    /\ futures[2].state = "raised"
    /\ Len(jobs) = 1 /\ jobs[1].url = x_urls[1]
    /\ Len(FailuresOfCall) = 2
    /\ \E k \in 1..2 : /\ FailuresOfCall[k].url = x_urls[2]
                       /\ FailuresOfCall[k].error_type = "processing_error"
    /\ \E k \in 1..2 : /\ FailuresOfCall[k].url = x_urls[3]
                       /\ FailuresOfCall[k].error_type = "parse_error"


\* The adjustment formula for a count, in milliseconds:
\* request_delay * (1 + min(count * 0.5, 4.0)), at most max_adaptive_delay.
DelayForCount(count) ==
    Min(RequestDelayMs + (RequestDelayMs * Min(count, 8)) \div 2, MaxAdaptiveDelayMs)

\* C21: when the number of extracted jobs reaches a multiple of 100,
\* recent_406_count becomes max(0, recent_406_count - 2) and adaptive_delay
\* becomes the value of the adjustment formula for the new count, which is
\* request_delay once the count is 0.
C21_DecayRecomputesDelay ==
    [][(jobs_extracted' = jobs_extracted + 1 /\ jobs_extracted' % 100 = 0) =>
          /\ recent_406_count' = Max(0, recent_406_count - 2)
          /\ adaptive_delay' = DelayForCount(recent_406_count')]_vars


\* The retry loop of _fetch_job_detail_with_retry starts attempt n >= 1.
StartsRetry == f_pc = "loop" /\ attempt > 0 /\ tries' # tries

\* C25 as stated: the wait before retry n is min(3^n, 30) seconds, and with
\* recent_406_count > 0 the cap is doubled: min(3^n, 60) seconds.
C25_CapDoubledAfter406 ==
    [][StartsRetry =>
          retry_wait' = Min(3 ^ attempt, IF recent_406_count > 0 THEN 60 ELSE 30)]_vars

\* C25 amended: the wait before retry n is min(3^n, 30) seconds, and with
\* recent_406_count > 0 the delay is doubled before the cap of 30 seconds is
\* applied: min(2 * 3^n, 30) seconds.
C25_DelayDoubledBeforeCap ==
    [][StartsRetry =>
          retry_wait' = IF recent_406_count > 0 THEN Min(2 * (3 ^ attempt), 30)
                        ELSE Min(3 ^ attempt, 30)]_vars

\* After a 406 on the first attempt, the first retry has waited 6 seconds.
C25_Witness ==
    /\ Len(tries) = 2
    /\ recent_406_count > 0
    /\ retry_wait = 6


\* C29: the JobFailure that _fetch_job_detail_with_retry returns carries in
\* retry_count the number of retries made for the URL: 0 after a single
\* attempt, max_retries when every attempt ended in a retryable failure.
C29_RetryCountIsRetriesMade ==
    (f_pc = "returned" /\ returned[1].type = "JobFailure") =>
        /\ returned[1].retry_count = Len(tries) - 1
        /\ (\A k \in DOMAIN tries : tries[k]) /\ Len(tries) = max_retries + 1 =>
              returned[1].retry_count = max_retries


\* C30: when each run reads the retry file of the run before and the URL
\* fails again with an error that can be retried, the retry_count of its
\* failure grows from run to run, and from run 6 on process_failures writes
\* the failure to the permanent file, not to a retry queue.
C30_RetryFilesEndInPermanent ==
    q_pc = "processed" =>
        /\ \A i \in DOMAIN q_failures : q_failures[i].retry_count >= q_round - 1
        /\ q_round > max_retry_attempts =>
              \A k \in DOMAIN q_files : q_files[k].prefix = "permanent_failures"


\* C28: every call of extract_from_urls on an extractor, the first and the
\* later ones, returns jobs and failures that account for the URLs of that
\* call and for nothing else: len(jobs) + len(failures) is the number of URLs.
C28_EachCallAccountsForItsUrls ==
    x_pc = "returned" =>
        /\ Len(jobs) + Len(x_failures) = Len(x_urls)
        /\ \A k \in DOMAIN x_failures :
              \E i \in DOMAIN x_urls : x_failures[k].url = x_urls[i]


\* The listing page the pagination loop is asking for.
PageAsked == PageForOffset(offset, page_size)

\* The page asked for holds a job link whose job ID is not yet known.
PageHasNewId ==
    \E i \in DOMAIN PageAsked :
        HasJobLink(PageAsked[i]) /\ _extract_job_id(PageAsked[i]) \notin existing_job_ids

\* A step of the pagination loop whose request was answered 200 or 202.
PageFetched ==
    /\ pc = "paginate"
    /\ fetches' = fetches + 1
    /\ retry_attempt' # retry_attempt + 1
    /\ stop_reason' \notin {"max_retries", "http_error", "timeout", "connection_error",
                            "unexpected_error"}

\* C23: after a page that was fetched, _scrape_via_html_pagination stops only
\* if the page is empty or holds no new job ID; a page with a new job ID,
\* shorter than the detected page size or not, is followed by the request for
\* the next page.
C23_StopsOnlyOnEmptyOrNoNew ==
    [][PageFetched =>
          /\ pc' = "done" => PageAsked = <<>> \/ ~ PageHasNewId
          /\ PageHasNewId =>
                /\ pc' = "paginate"
                /\ offset' = offset + page_size
                /\ page_num' = page_num + 1]_vars

\* A second page shorter than the detected page size gave a new job ID, and
\* the loop is about to ask for the third.
C23_Witness ==
    /\ pc = "paginate"
    /\ page_num = 3
    /\ offset = 2 * page_size
    /\ Len(PageAt(2)) < page_size
    /\ Len(urls) >= 2

C26_SitemapOnlyNeedsFetchedSample ==
    (pc = "done" /\ strategy_used = "sitemap_only") =>
        /\ sample_stop \in {"empty", "end"}
        /\ sample_urls = <<>>

\* C27: when _scrape_via_html_pagination has stopped for another reason than
\* an empty page or a page without new job IDs, self.failures or self.retries
\* holds a URLFailure of the listing that describes the stop.
C27_AbnormalStopIsRecorded ==
    (pc = "done" /\ stop_reason \notin {"none", "empty_page", "no_new_urls"}) =>
        \/ failures # <<>> /\ failures[Len(failures)].source = "html"
        \/ retries # <<>> /\ retries[Len(retries)].source = "html"


\* C22: whatever the interleaving of the threads in _rate_limited_request,
\* two requests issued one after the other are at least
\* request_delay + adaptive_delay apart.
C22_RequestsKeepTheirDistance ==
    \A k \in 1..(Len(requests) - 1) :
        requests[k + 1] - requests[k] >= RequestDelayMs + adaptive_delay

====
